---- MODULE Spec2Model ----
(***************************************************************************)
(* Signaling Session Manager: class WeAllWebRTC of weall_node/websdk.js.   *)
(*                                                                         *)
(* The state is the fields of one WeAllWebRTC instance, the poll-loop      *)
(* tasks it has started (loops), the public calls that are suspended at    *)
(* an await (tasks), and `ev`, the record of the operation that completed  *)
(* last: its input, the error it raised to its caller (or Null) and the    *)
(* effects it had on the outside world (requests, connections created or   *)
(* closed, callbacks invoked), in program order.  A request whose answer   *)
(* the code awaits is recorded when the answer arrives, as "req" when it   *)
(* succeeded and as "reqfail" when it was rejected; the poll request of a  *)
(* loop task is recorded when it is sent, by the run that sends it.        *)
(*                                                                         *)
(* The code is single-threaded and every method is an async function: it   *)
(* runs without interruption up to an await of something that is not yet   *)
(* settled (a request to the server, getUserMedia, a call on an            *)
(* RTCPeerConnection, the sleep of the loop), and anything else may run    *)
(* before it is resumed.  A step of the model is one such run: the start   *)
(* of a call up to its first await, or the code from one await to the      *)
(* next.  Sequential code is a composition of operators over a session     *)
(* record `s` (the fields of `this`, plus the effects fx and the error     *)
(* err of the run, and k, the await the run has stopped at); the code      *)
(* after a raised exception is not run.  An await of a promise that is     *)
(* settled already (an async method that returned at once) does not stop   *)
(* the run.                                                                *)
(*                                                                         *)
(* The messages of a poll response are handled in one run as long as no    *)
(* handler stops at an await; the model records each message's handling    *)
(* in ev, and while a loop task stands between two messages of a response  *)
(* ("iter") nothing but that task runs.                                    *)
(*                                                                         *)
(* live is the bag of the connection objects created and not closed, by    *)
(* the participant each is for.  made is the number of identifiers         *)
(* _randClientId has produced; every one it produces is new.               *)
(*                                                                         *)
(* Not in the state: accountId (written by joinRoom, read only to build    *)
(* the join request) and the tracks attached to each connection.           *)
(* localStream is Null, "live" (tracks enabled) or "muted" (disabled);     *)
(* pcMap is the sequence of the peers a connection is held for, in the     *)
(* order of insertion (the keys of the Map).  Polled messages are          *)
(* well-formed: {mid, from, type, data}, with who and event standing for   *)
(* data.client_id and data.event.  A roster is the participants array of   *)
(* a response, in the order the server sent it, duplicates included.       *)
(***************************************************************************)
EXTENDS Naturals, Integers, Sequences, FiniteSets, Bags, TLC

\* ---- bounds ----
MaxMid == 2          \* message ids and server cursors range over 0..MaxMid
MaxLoops == 1        \* poll-loop tasks alive at the same time
MaxRoster == 2       \* entries of a roster returned by the server
MaxRand == 2         \* identifiers _randClientId produces
MaxTasks == 1        \* public calls suspended at an await at the same time
MaxLive == 3         \* connections created and not closed

\* ---- value domains ----
Null == "null"                      \* null / undefined / absent
Ids == {"a", "b", "c"}              \* client identifiers in messages
GivenIds == {"a"}                   \* clientId values passed to joinRoom
\* the n-th value _randClientId produces: no two calls give the same
RandId(n) == "x" \o ToString(n)
RandIds == {RandId(n) : n \in 1..MaxRand}
Rooms == {"r1"}                     \* room identifiers
Mids == 1..MaxMid
Types == {"offer", "answer", "candidate", "bye", "presence", "chat"}
Msgs ==
    [mid : Mids, from : Ids, type : {"offer", "answer", "candidate", "chat"},
     who : {Null}, event : {Null}]
    \cup [mid : Mids, from : Ids, type : {"bye"}, who : Ids \cup {Null}, event : {Null}]
    \cup [mid : Mids, from : Ids, type : {"presence"}, who : Ids \cup {Null},
          event : {"join", "unpublish"}]
NoMsg == [mid |-> 0, from |-> Null, type |-> Null, who |-> Null, event |-> Null]
\* an entry of a participants array; only the local client's entry is read
\* beyond its client_id, so the entries of the others carry no role
Entries ==
    {e \in [client_id : Ids \cup RandIds, publisher : BOOLEAN, role : {Null, "host"}] :
        e.client_id \notin GivenIds \cup RandIds => e.role = Null}
\* participants arrays of at most MaxRoster entries
Rosters == UNION {[1..n -> Entries] : n \in 0..MaxRoster}
NoRoster == <<>>
\* the client_id of each entry, in the order of the array
ClientIds(roster) == [i \in DOMAIN roster |-> roster[i].client_id]

VARIABLES roomId, clientId, role, isPublisher, localStream, pcMap, lastMid,
          pollAbort, iceServers, loops, ev, justLeft,
          live, tasks, made,
          pm, pmEv,
          clients, net
vars == <<roomId, clientId, role, isPublisher, localStream, pcMap, lastMid,
          pollAbort, iceServers, loops, ev, justLeft, live, tasks, made,
          pm, pmEv, clients, net>>

\* ---- awaits ----
\* The await a run has stopped at: `at` is what is awaited ("join", "create",
\* "publish", "leave", "state", "ice", "poll": the answer to that request;
\* "signal": the answer to api.signal; "media": getUserMedia; "createOffer",
\* "createAnswer", "setLocal", "setRemote", "addIce": that call on the
\* connection), sub the method that awaits and peer the participant its
\* connection is for.  Ret: the method returned.
Frame(sub, at, peer) == [sub |-> sub, at |-> at, peer |-> peer]
Ret == Frame(Null, "ret", Null)

\* ---- the session record ----
Cur == [roomId |-> roomId, clientId |-> clientId, role |-> role,
        isPublisher |-> isPublisher, localStream |-> localStream,
        pcMap |-> pcMap, lastMid |-> lastMid, pollAbort |-> pollAbort,
        iceServers |-> iceServers, loops |-> loops, live |-> live, tasks |-> tasks,
        made |-> made,
        fx |-> <<>>, err |-> Null, k |-> Ret, rest |-> <<>>]

Commit(s) ==
    /\ roomId' = s.roomId
    /\ clientId' = s.clientId
    /\ role' = s.role
    /\ isPublisher' = s.isPublisher
    /\ localStream' = s.localStream
    /\ pcMap' = s.pcMap
    /\ lastMid' = s.lastMid
    /\ pollAbort' = s.pollAbort
    /\ iceServers' = s.iceServers
    /\ loops' = s.loops
    /\ live' = s.live
    /\ tasks' = s.tasks
    /\ made' = s.made

E(k, a, to) == [k |-> k, a |-> a, to |-> to]
\* an effect; a connection created or closed enters or leaves `live`
Fx(s, e) ==
    [s EXCEPT !.fx = Append(@, e),
              !.live = IF e.k = "pc" /\ e.a = "create" THEN @ (+) SetToBag({e.to})
                       ELSE IF e.k = "pc" /\ e.a = "close" THEN @ (-) SetToBag({e.to})
                       ELSE @]
Throw(s, e) == [s EXCEPT !.err = e, !.k = Ret]
Ok(s) == s.err = Null
Await(s, sub, at, peer) == [s EXCEPT !.k = Frame(sub, at, peer)]
Suspended(s) == Ok(s) /\ s.k # Ret
Max(x, y) == IF x >= y THEN x ELSE y

\* the Map pcMap: has, set, delete, keys
Has(map, p) == \E i \in 1..Len(map) : map[i] = p
Put(map, p) == IF Has(map, p) THEN map ELSE Append(map, p)
Del(map, p) == SelectSeq(map, LAMBDA x : x # p)
Keys(map) == {map[i] : i \in 1..Len(map)}

\* the calls on an RTCPeerConnection the code awaits
RtcCalls == {"createOffer", "createAnswer", "setLocal", "setRemote", "addIce"}
\* the kind of an await: "rtc" for a call on a connection
Kind(at) == IF at \in RtcCalls THEN "rtc" ELSE at

\* the answer to an await: "ok"; "fail", the promise is rejected; "empty", a
\* config without ICE servers
Outcomes(k, Kinds) ==
    {"ok"}
    \cup (IF Kind(k.at) \in Kinds THEN {"fail"} ELSE {})
    \cup (IF k.at = "ice" /\ "ice" \in Kinds THEN {"empty"} ELSE {})

\* ---- helpers of the class ----

\* loadIce up to its await: with no list held the config is requested
LoadIce(s, sub, peer) ==
    IF s.iceServers # Null THEN s ELSE Await(s, sub, "ice", peer)

\* loadIce after its await: the list received, or the public STUN server when
\* the list is empty or the request failed, is stored
LoadIceEnd(s, r) ==
    Fx([s EXCEPT !.iceServers = IF r = "ok" THEN "list" ELSE "stun"],
       E(IF r = "fail" THEN "reqfail" ELSE "req", "ice", Null))

\* mutant of StartMediaEnd: a failed acquisition is swallowed
StartMediaEndSilent(s, r) ==
    IF r = "fail" THEN Fx(s, E("media", "denied", Null))
    ELSE Fx([s EXCEPT !.localStream = IF s.isPublisher THEN "live" ELSE "muted"],
            E("media", "get", Null))

\* startMedia up to its await: getUserMedia is called unless a stream is held
StartMedia(s) ==
    IF s.localStream # Null THEN s ELSE Await(s, "startMedia", "media", Null)

\* startMedia after its await: the stream is stored, its tracks enabled or not
StartMediaEnd(s, r) ==
    IF r = "fail" THEN Throw(Fx(s, E("media", "denied", Null)), "media")
    ELSE Fx([s EXCEPT !.localStream = IF s.isPublisher THEN "live" ELSE "muted"],
            E("media", "get", Null))

\* stopMedia: stop the tracks and drop the stream
StopMedia(s) ==
    IF s.localStream = Null THEN s
    ELSE Fx([s EXCEPT !.localStream = Null], E("media", "stop", Null))

\* _refreshRoster up to its await, called by sub
RefreshRoster(s, sub) ==
    IF s.roomId = Null THEN s ELSE Await(s, sub, "state", Null)

\* _refreshRoster after its await: the state goes to onRoster; errors swallowed
RefreshRosterEnd(s, r) ==
    IF r = "fail" THEN Fx(s, E("reqfail", "state", Null))
    ELSE Fx(Fx(s, E("req", "state", Null)), E("cb", "onRoster", Null))

\* _pcFor after the await of loadIce: `new RTCPeerConnection(...)`,
\* `pcMap.set(peerId, pc)`, whatever the map holds by now
PcForCreate(s, peerId) ==
    Fx([s EXCEPT !.pcMap = Put(@, peerId)], E("pc", "create", peerId))

\* the call on the connection the method sub awaits first
FirstCall(sub) ==
    CASE sub = "makeOffer" -> "createOffer"
      [] sub = "handleOffer" -> "setRemote"
      [] sub = "handleAnswer" -> "setRemote"
      [] OTHER -> "addIce"

\* _pcFor called by sub, up to the first await: that of loadIce when no
\* connection is held and no list either, else that of sub's first call on
\* the connection
PcFor(s, sub, peerId) ==
    IF Has(s.pcMap, peerId) THEN Await(s, sub, FirstCall(sub), peerId)
    ELSE IF s.iceServers # Null THEN Await(PcForCreate(s, peerId), sub, FirstCall(sub), peerId)
    ELSE LoadIce(s, sub, peerId)

\* _pcFor after the await of loadIce, up to sub's first call on the connection
PcForEnd(s, sub, peerId, r) ==
    Await(PcForCreate(LoadIceEnd(s, r), peerId), sub, FirstCall(sub), peerId)

\* api.signal from the local client to `to`, answered
SendSignalEnd(s, type, to, r) ==
    IF r = "fail" THEN Throw(Fx(s, E("reqfail", type, to)), "signal")
    ELSE Fx(s, E("signal", type, to))

\* _makeOffer up to its first await
MakeOffer(s, peerId) == PcFor(s, "makeOffer", peerId)

\* _makeOffer after createOffer: setLocalDescription
MakeOfferCreated(s, peerId, r) ==
    IF r = "ok" THEN Await(s, "makeOffer", "setLocal", peerId) ELSE Throw(s, "rtc")

\* _makeOffer after setLocalDescription: the offer is sent
MakeOfferLocal(s, peerId, r) ==
    IF r = "ok" THEN Await(s, "makeOffer", "signal", peerId) ELSE Throw(s, "rtc")

\* _handleOffer up to its first await
HandleOffer(s, from) == PcFor(s, "handleOffer", from)

\* _handleOffer after setRemoteDescription: createAnswer
HandleOfferRemote(s, from, r) ==
    IF r = "ok" THEN Await(Fx(s, E("pc", "remote", from)), "handleOffer", "createAnswer", from)
    ELSE Throw(s, "rtc")

\* _handleOffer after createAnswer: setLocalDescription
HandleOfferCreated(s, from, r) ==
    IF r = "ok" THEN Await(s, "handleOffer", "setLocal", from) ELSE Throw(s, "rtc")

\* mutant of HandleOfferLocal: the answer is sent without its recipient
HandleOfferLocalNoRecipient(s, from, r) ==
    IF r = "ok" THEN Await(s, "handleOffer", "signal", Null) ELSE Throw(s, "rtc")

\* _handleOffer after setLocalDescription: the answer is sent
HandleOfferLocal(s, from, r) ==
    IF r = "ok" THEN Await(s, "handleOffer", "signal", from) ELSE Throw(s, "rtc")

\* mutant of HandleAnswer: the connection is obtained as _handleOffer does
HandleAnswerCreating(s, from) == PcFor(s, "handleAnswer", from)

\* _handleAnswer up to its await
HandleAnswer(s, from) ==
    IF ~Has(s.pcMap, from) THEN s ELSE Await(s, "handleAnswer", "setRemote", from)

\* _handleAnswer after setRemoteDescription
HandleAnswerRemote(s, from, r) ==
    IF r = "ok" THEN Fx(s, E("pc", "remote", from)) ELSE Throw(s, "rtc")

\* _handleCandidate up to its first await
HandleCandidate(s, from) == PcFor(s, "handleCandidate", from)

\* _handleCandidate after addIceCandidate, whose failure is swallowed
HandleCandidateAdded(s, from, r) ==
    IF r = "ok" THEN Fx(s, E("pc", "addIce", from)) ELSE s

\* the participant a leave-notice names: data.client_id, or else the sender
Named(m) == IF m.who # Null THEN m.who ELSE m.from

\* `if (pc) pc.close(); this.pcMap.delete(id)`
Drop(s, id) ==
    IF Has(s.pcMap, id)
    THEN Fx([s EXCEPT !.pcMap = Del(@, id)], E("pc", "close", id))
    ELSE s

\* mutant of HandleBye: the sender's connection is dropped as well
HandleByeBoth(s, m) == Await(Drop(Drop(s, Named(m)), m.from), "bye", "state", Null)

\* mutant of HandleBye: the connection dropped is always the sender's
HandleByeSender(s, m) == Await(Drop(s, m.from), "bye", "state", Null)

\* the 'bye' branch of _handleSignal up to its await
HandleBye(s, m) == Await(Drop(s, Named(m)), "bye", "state", Null)

\* the 'bye' branch after its await: a failed roomState is not caught
HandleByeEnd(s, r) ==
    IF r = "fail" THEN Throw(Fx(s, E("reqfail", "state", Null)), "state")
    ELSE Fx(Fx(s, E("req", "state", Null)), E("cb", "onRoster", Null))

\* the 'presence' branch of _handleSignal after _refreshRoster
PresenceOffer(s, m) ==
    IF s.isPublisher /\ m.who # Null /\ m.who # s.clientId /\ m.event # "unpublish"
    THEN MakeOffer(s, m.who)
    ELSE s

\* the 'presence' branch of _handleSignal up to its first await
HandlePresence(s, m) ==
    LET t == RefreshRoster(s, "presence")
    IN IF t.k = Ret THEN PresenceOffer(t, m) ELSE t

\* mutant of HandleSignal: a message of an unrecognized type is dropped
HandleSignalDropping(s, m) ==
    CASE m.type = "offer" -> HandleOffer(s, m.from)
      [] m.type = "answer" -> HandleAnswer(s, m.from)
      [] m.type = "candidate" -> HandleCandidate(s, m.from)
      [] m.type = "bye" -> HandleBye(s, m)
      [] m.type = "presence" -> HandlePresence(s, m)
      [] OTHER -> s

\* _handleSignal up to its first await
HandleSignal(s, m) ==
    CASE m.type = "offer" -> HandleOffer(s, m.from)
      [] m.type = "answer" -> HandleAnswer(s, m.from)
      [] m.type = "candidate" -> HandleCandidate(s, m.from)
      [] m.type = "bye" -> HandleBye(s, m)
      [] m.type = "presence" -> HandlePresence(s, m)
      [] OTHER -> Fx(s, E("cb", "onMessage", m.from))

\* The run that follows the await k, answered with r, up to the next await of
\* the same method or to its return.
Resume(s, k, r) ==
    CASE k.at = "ice" ->
            IF k.sub = "loadIce" THEN LoadIceEnd(s, r) ELSE PcForEnd(s, k.sub, k.peer, r)
      [] k.at = "createOffer" -> MakeOfferCreated(s, k.peer, r)
      [] k.at = "createAnswer" -> HandleOfferCreated(s, k.peer, r)
      [] k.at = "setLocal" ->
            IF k.sub = "makeOffer" THEN MakeOfferLocal(s, k.peer, r)
            ELSE HandleOfferLocal(s, k.peer, r)
      [] k.at = "setRemote" ->
            IF k.sub = "handleOffer" THEN HandleOfferRemote(s, k.peer, r)
            ELSE HandleAnswerRemote(s, k.peer, r)
      [] k.at = "addIce" -> HandleCandidateAdded(s, k.peer, r)
      [] k.at = "signal" ->
            SendSignalEnd(s, IF k.sub = "makeOffer" THEN "offer" ELSE "answer", k.peer, r)
      [] k.at = "state" ->
            IF k.sub = "bye" THEN HandleByeEnd(s, r) ELSE RefreshRosterEnd(s, r)
      [] OTHER -> StartMediaEnd(s, r)

\* mutant of OfferNext: the local client's own entry is offered to as well
RECURSIVE OfferNextInclSelf(_, _)
OfferNextInclSelf(s, asPublisher) ==
    IF s.rest = <<>> THEN s
    ELSE LET p == Head(s.rest)
             t == [s EXCEPT !.rest = Tail(@)]
         IN IF ~asPublisher \/ s.isPublisher THEN MakeOffer(t, p)
            ELSE OfferNextInclSelf(t, asPublisher)

\* the `for` loop over a roster (s.rest: the client_id of the entries still
\* to come, in the order of the array), up to
\* the await of the next offer or to the end of the loop: an offer goes to
\* every entry but the local client's; joinRoom (asPublisher) tests
\* isPublisher for each entry, publish does not
RECURSIVE OfferNext(_, _)
OfferNext(s, asPublisher) ==
    IF s.rest = <<>> THEN s
    ELSE LET p == Head(s.rest)
             t == [s EXCEPT !.rest = Tail(@)]
         IN IF p # s.clientId /\ (~asPublisher \/ s.isPublisher) THEN MakeOffer(t, p)
            ELSE OfferNext(t, asPublisher)

\* ---- the poll loop ----
\* A loop task: polling (its request is out, since the cursor it carries),
\* backoff (asleep after a failure), iter (between two messages of a
\* response), or handler (its handler of the message m is stopped at the
\* await k, with the effects fx so far; held is the map as it was when the
\* handling began).  stale and alone are history fields: leaveRoom has been
\* called since the task was started; nothing else has run since the
\* handling of m began.
Loop(st, since) ==
    [st |-> st, since |-> since, m |-> NoMsg, k |-> Ret, fx |-> <<>>, held |-> <<>>,
     stale |-> FALSE, alone |-> TRUE]
DropLoop(s, l) == [s EXCEPT !.loops = @ (-) SetToBag({l})]
AddLoop(s, l) == [s EXCEPT !.loops = @ (+) SetToBag({l})]
\* the task l at another point of the loop
Moved(l, st, since) == [Loop(st, since) EXCEPT !.stale = l.stale]

\* the request of one iteration: api.poll with sinceMid = lastMid
IssuePoll(s, l) == Fx(AddLoop(s, Moved(l, "polling", s.lastMid)), E("req", "poll", Null))

\* the `while (!this._pollAbort)` test of the task l, which is not in the bag
WhileCheck(s, l) == IF s.pollAbort THEN s ELSE IssuePoll(s, l)

\* `this.lastMid = r.last_mid || this.lastMid`
CursorFromResponse(cur, last_mid) == IF last_mid # 0 THEN last_mid ELSE cur

\* `this.lastMid = Math.max(this.lastMid, m.mid)`
CursorFromMessage(cur, mid) == Max(cur, mid)

\* mutant of Skipped: the sender is compared with the room, not the client
SkippedByRoom(s, m) == m.from = s.roomId

\* `if ((m.from || '') === this.clientId) continue;`
Skipped(s, m) == m.from = s.clientId

\* ---- the record of the last operation ----
\* Runs happen one at a time.  The run that completes an operation (a public
\* call returns or raises, a poll response's cursor is assigned, a polled
\* message has been handled) leaves the operation's record in ev; Return (its
\* caller has observed the outcome) clears it.  A run that stops at an await
\* records nothing: what it did is kept with the suspended call.
\* justLeft is a history variable: the operation that completed last was a
\* leaveRoom that got past its guard, and nothing has run since.
Idle == [op |-> "idle", in |-> <<>>, err |-> Null, fx |-> <<>>]

\* a run has come between the runs of every call that is suspended, and of
\* every handler that is: they are no longer alone (a history field)
Disturb(s) ==
    [s EXCEPT !.tasks = BagOfAll(LAMBDA t : [t EXCEPT !.in.alone = FALSE], @),
              !.loops = BagOfAll(LAMBDA l : [l EXCEPT !.alone = @ /\ l.st # "handler"], @)]

Done(s, op, in) ==
    /\ Commit(Disturb(s))
    /\ ev' = [op |-> op, in |-> in, err |-> s.err, fx |-> s.fx]
    /\ UNCHANGED <<justLeft, pm, pmEv, clients, net>>

Pending(s) ==
    /\ Commit(s)
    /\ justLeft' = FALSE
    /\ UNCHANGED <<ev, pm, pmEv, clients, net>>

Return ==
    /\ ev # Idle
    /\ ev' = Idle
    /\ justLeft' = (ev.op = "leaveRoom" /\ ev.in.ran)
    /\ UNCHANGED <<roomId, clientId, role, isPublisher, localStream, pcMap, lastMid,
                   pollAbort, iceServers, loops, live, tasks, made, pm, pmEv,
                   clients, net>>

\* no loop task stands between two messages of a response
Quiet == \A l \in BagToSet(loops) : l.st # "iter"
\* a new run can start
Ready == ev = Idle /\ Quiet

\* new WeAllWebRTC(api, opts)
SessionInit ==
    /\ roomId = Null
    /\ clientId = Null
    /\ role = "observer"
    /\ isPublisher = FALSE
    /\ localStream = Null
    /\ pcMap = <<>>
    /\ lastMid = 0
    /\ pollAbort = FALSE
    /\ iceServers = Null
    /\ loops = EmptyBag
    /\ live = EmptyBag
    /\ tasks = EmptyBag
    /\ made = 0
    /\ ev = Idle
    /\ justLeft = FALSE

\* no pool manager is part of the run
NoPool == pm = Null /\ pmEv = Null
\* no room with several sessions is part of the run
NoRoom == clients = Null /\ net = Null

\* A session on its own.
Init ==
    /\ SessionInit
    /\ NoPool
    /\ NoRoom

\* ---- suspended calls ----
\* A public call stopped at the await k: its name, the roster entries its
\* loop of offers has still to visit, its input and its effects so far.
Task(op, k, rest, in, fx) == [op |-> op, k |-> k, rest |-> rest, in |-> in, fx |-> fx]
DropTask(s, t) == [s EXCEPT !.tasks = @ (-) SetToBag({t})]
AddTask(s, t) == [s EXCEPT !.tasks = @ (+) SetToBag({t})]
\* the session as the call t finds it when it is resumed
Load(s, t) == [DropTask(s, t) EXCEPT !.fx = t.fx, !.rest = t.rest]

\* the end of a run of the public call op
Settle(s, op, in) ==
    /\ BagCardinality(s.live) <= MaxLive
    /\ IF Suspended(s)
       THEN Pending(AddTask(Disturb(s), Task(op, s.k, s.rest, in, s.fx)))
       ELSE Done(s, op, in)

\* the first run of the public call op, made while fewer than n calls are
\* suspended (unless it completes the call)
FirstRun(s, op, in, n) ==
    /\ Suspended(s) => BagCardinality(tasks) < n
    /\ Settle(s, op, in)

\* ---- operations of the class ----

\* createRoom({policy, owner, panelId}) up to its await
CreateRoomBegin(s) == Await(s, "createRoom", "create", Null)

\* createRoom after its await
CreateRoomEnd(s, r, room) ==
    IF r = "fail" THEN Throw(Fx(s, E("reqfail", "create", Null)), "create")
    ELSE [Fx(s, E("req", "create", Null)) EXCEPT !.roomId = room, !.lastMid = 0]

\* `(res.participants || []).find(p => p.client_id === this.clientId)`: the
\* first entry of the array with that client_id, NoMeta (undefined) without one
NoMeta == [client_id |-> Null, publisher |-> FALSE, role |-> Null]
SelfMeta(roster, id) ==
    LET S == {i \in DOMAIN roster : roster[i].client_id = id}
    IN IF S = {} THEN NoMeta ELSE roster[CHOOSE i \in S : \A j \in S : i <= j]

\* mutant of GrantedPublisher: any entry's flag, not the local client's
GrantedPublisherAny(roster, id) == \E i \in DOMAIN roster : roster[i].publisher

\* `this.isPublisher = !!(selfMeta && selfMeta.publisher)`
GrantedPublisher(roster, id) == SelfMeta(roster, id).publisher

\* `this.role = (selfMeta && selfMeta.role) || this.role`
GrantedRole(roster, id, requested) ==
    IF SelfMeta(roster, id).role # Null THEN SelfMeta(roster, id).role ELSE requested

\* _randClientId(): an identifier no earlier call has produced
RandClientId(s) == [s EXCEPT !.made = @ + 1]

\* joinRoom({roomId, clientId, accountId, role, publisher}) up to its first
\* await
JoinRoomBegin(s, in) ==
    LET s1 == [s EXCEPT !.roomId = IF in.roomId # Null THEN in.roomId ELSE @]
        s2 == IF in.clientId # Null THEN [s1 EXCEPT !.clientId = in.clientId]
              ELSE LET t == RandClientId(s1) IN [t EXCEPT !.clientId = RandId(t.made)]
        s3 == [s2 EXCEPT !.role = IF in.role # Null THEN in.role ELSE "observer"]
    IN IF s1.roomId = Null THEN Throw(s1, "roomId required")
       ELSE Await(s3, "joinRoom", "join", Null)

\* the end of joinRoom: the flag is reset and a poll loop is started, which
\* runs up to its first request
JoinRoomEnd(s) == IssuePoll([s EXCEPT !.pollAbort = FALSE], Loop("polling", 0))

\* joinRoom from the return of sub (the join request, startMedia,
\* _refreshRoster, _makeOffer) up to its next await or to its end
RECURSIVE JoinRoomNext(_, _, _)
JoinRoomNext(s, roster, sub) ==
    IF ~Ok(s) \/ s.k # Ret THEN s
    ELSE CASE sub = "joinRoom" ->
                 JoinRoomNext(IF s.isPublisher THEN StartMedia(s) ELSE s,
                              roster, "startMedia")
           [] sub = "startMedia" ->
                 JoinRoomNext(RefreshRoster(s, "refresh"), roster, "refresh")
           [] OTHER ->
                 LET t == OfferNext(IF sub = "refresh"
                                    THEN [s EXCEPT !.rest = ClientIds(roster)]
                                    ELSE s, TRUE)
                 IN IF t.k = Ret THEN JoinRoomEnd(t) ELSE t

\* joinRoom resumed at the await k with the answer r; roster is the roster
\* of the join response
JoinRoomResume(s, k, r, roster) ==
    IF k.at = "join"
    THEN IF r = "fail" THEN Throw(Fx(s, E("reqfail", "join", Null)), "join")
         ELSE LET t == Fx(s, E("req", "join", Null))
              IN JoinRoomNext([t EXCEPT !.isPublisher = GrantedPublisher(roster, t.clientId),
                                        !.role = GrantedRole(roster, t.clientId, t.role)],
                              roster, "joinRoom")
    ELSE JoinRoomNext(Resume(s, k, r), roster, k.sub)

\* mutant of NotInRoom: `&&` for `||`
NotInRoomBoth(s) == s.roomId = Null /\ s.clientId = Null

\* `if (!this.roomId || !this.clientId) return;`
NotInRoom(s) == s.roomId = Null \/ s.clientId = Null

\* `for (const pc of this.pcMap.values()) pc.close(); this.pcMap.clear();`
RECURSIVE CloseAll(_, _)
CloseAll(s, peers) ==
    IF peers = <<>> THEN [s EXCEPT !.pcMap = <<>>]
    ELSE CloseAll(Fx(s, E("pc", "close", Head(peers))), Tail(peers))

\* leaveRoom() up to its await
LeaveRoomBegin(s) ==
    IF NotInRoom(s) THEN s
    ELSE Await([s EXCEPT !.pollAbort = TRUE], "leaveRoom", "leave", Null)

\* mutant of LeaveRoomEnd: a failed leave request is not caught
LeaveRoomEndNoCatch(s, r) ==
    IF r = "fail" THEN Throw(Fx(s, E("reqfail", "leave", Null)), "leave")
    ELSE Fx(StopMedia(CloseAll(Fx(s, E("req", "leave", Null)), s.pcMap)),
            E("cb", "onDisconnected", Null))

\* leaveRoom after its await, whether the leave request succeeded or not
LeaveRoomEnd(s, r) ==
    LET s2 == Fx(s, E(IF r = "fail" THEN "reqfail" ELSE "req", "leave", Null))
        s3 == CloseAll(s2, s2.pcMap)
        s4 == StopMedia(s3)
    IN Fx(s4, E("cb", "onDisconnected", Null))

\* publish(enable, roleOverride) up to its await
PublishBegin(s) ==
    IF NotInRoom(s) THEN Throw(s, "join the room first")
    ELSE Await(s, "publish", "publish", Null)

\* publish from the return of sub (the publish request, startMedia,
\* _makeOffer) up to its next await or to its end
PublishNext(s, enable, roster, sub) ==
    IF ~Ok(s) \/ s.k # Ret THEN s
    ELSE IF sub = "publish" /\ enable /\ s.localStream = Null THEN StartMedia(s)
    ELSE IF ~enable THEN s
    ELSE OfferNext(IF sub = "makeOffer" THEN s
                   ELSE [s EXCEPT !.rest = ClientIds(roster)], FALSE)

\* publish resumed at the await k with the answer r; roster is the roster of
\* the publish response
PublishResume(s, k, r, enable, roster) ==
    IF k.at = "publish"
    THEN IF r = "fail" THEN Throw(Fx(s, E("reqfail", "publish", Null)), "publish")
         ELSE PublishNext([Fx(s, E("req", "publish", Null)) EXCEPT !.isPublisher = enable],
                          enable, roster, "publish")
    ELSE PublishNext(Resume(s, k, r), enable, roster, k.sub)

\* one poll response: the cursor assignment of _pollLoop, then either the
\* first message's turn (more) or the end of the `for` loop
PollResponseOp(s, l, last_mid, more) ==
    LET s1 == [DropLoop(s, l) EXCEPT !.lastMid = CursorFromResponse(@, last_mid)]
    IN IF more THEN AddLoop(s1, Moved(l, "iter", l.since)) ELSE WhileCheck(s1, l)

\* mutant of PollErrorOp: the next request is issued without the sleep
PollErrorOpBusy(s, l) == IssuePoll(DropLoop(s, l), l)

\* a rejected poll request: the catch block, up to the 800 ms sleep
PollErrorOp(s, l) == AddLoop(DropLoop(s, l), Moved(l, "backoff", 0))

\* the body of `for (const m of r.messages)` for one message, up to the
\* first await of its handler
SignalOp(s, l, m) ==
    LET s1 == [DropLoop(s, l) EXCEPT !.lastMid = CursorFromMessage(@, m.mid)]
    IN IF Skipped(s1, m) THEN s1
       ELSE HandleSignal(Fx(s1, E("call", "_handleSignal", m.from)), m)

\* the handler of the task l resumed at its await with the answer r
HandlerResume(s, l, r) ==
    LET t == Resume(s, l.k, r)
    IN IF Ok(t) /\ t.k = Ret /\ l.k.sub = "presence" THEN PresenceOffer(t, l.m) ELSE t

\* mutant of SignalEnd: a handler's failure ends the loop and closes every
\* connection
SignalEndTearDown(s, l, more) ==
    IF ~Ok(s) THEN CloseAll(s, s.pcMap)
    ELSE IF more THEN AddLoop(s, Moved(l, "iter", l.since))
    ELSE WhileCheck(s, l)

\* the task l once its message is handled: the catch block and the sleep
\* when the handler raised, else the next message or the end of the `for` loop
SignalEnd(s, l, more) ==
    IF ~Ok(s) THEN AddLoop(s, Moved(l, "backoff", 0))
    ELSE IF more THEN AddLoop(s, Moved(l, "iter", l.since))
    ELSE WhileCheck(s, l)

\* the end of a run of the loop task l handling the message m
SettleLoop(s, l, m, more, held) ==
    /\ BagCardinality(s.live) <= MaxLive
    /\ IF Suspended(s)
       THEN Pending(AddLoop(Disturb(s),
                            [Moved(l, "handler", l.since) EXCEPT
                                !.m = m, !.k = s.k, !.fx = s.fx, !.held = held,
                                !.alone = l.alone]))
       ELSE Done(SignalEnd(s, l, more), "signal",
                 [m |-> m, since |-> l.since, more |-> more, stale |-> l.stale,
                  held |-> held, alone |-> l.alone])

\* ---- actions ----
\* Inputs.  The arguments of a call and the answers to its awaits are drawn
\* from the sets an action is given; a specification chooses how wide they are.
JoinArgs ==
    [roomId : Rooms \cup {Null}, clientId : GivenIds \cup {Null},
     role : {Null, "juror"}, publisher : BOOLEAN]
FewJoinArgs == {in \in JoinArgs : in.roomId # Null /\ in.clientId # Null /\ in.role = Null /\ in.publisher}
SomeJoinArgs == {in \in JoinArgs : in.role = Null /\ in.publisher}
\* the rosters whose entries are all of the clients of Cs
Among(Rs, Cs) == {r \in Rs : \A i \in DOMAIN r : r[i].client_id \in Cs}
SomeRosters == {r \in Rosters : \A i \in DOMAIN r : r[i].role = Null}
FewRosters == Among(SomeRosters, GivenIds)
Participants == {r \in SomeRosters : \A i \in DOMAIN r : ~r[i].publisher}
FewMsgs == {m \in Msgs : m.type \in {"offer", "bye"} /\ m.who = Null /\ m.mid = MaxMid}
\* the rosters and the messages of a room of two: the local client "a" and "b"
PairRosters == Among(SomeRosters, {"a", "b"})
PairParticipants == Among(Participants, {"b"})
\* the rosters of at most one entry
Short(Rs) == {r \in Rs : Len(r) <= 1}
\* the rosters of a room of three, the local client being "a" or the first
\* identifier _randClientId produces
JoinRosters == Among(Rosters, {"a", RandId(1), "b"})
PairOffers == {m \in FewMsgs : m.from = "b" /\ m.type = "offer"}

\* the awaits whose failure a specification may explore, besides those of
\* the requests a public call starts with, which are always explored
FaultKinds == {"media", "state", "rtc", "signal", "ice"}
Requests0 == {"create", "join", "leave", "publish"}

CreateRoomCall ==
    /\ Ready
    /\ FirstRun(CreateRoomBegin(Cur), "createRoom", [room |-> Null, alone |-> TRUE], MaxTasks)

CreateRoomStep ==
    /\ Ready
    /\ \E t \in BagToSet(tasks), r \in {"ok", "fail"}, room \in Rooms :
           /\ t.op = "createRoom"
           /\ Settle(CreateRoomEnd(Load(Cur, t), r, room), "createRoom",
                     [t.in EXCEPT !.room = room])

\* joinRoom called while fewer than n poll loops are alive or about to be
\* started, and fewer than c calls suspended; _randClientId produces at most
\* MaxRand identifiers
JoinRoomCallUpTo(Args, n, c) ==
    /\ Ready
    /\ BagCardinality(loops)
         + Cardinality({t \in BagToSet(tasks) : t.op = "joinRoom"}) < n
    /\ \E in \in Args :
           /\ JoinRoomBegin(Cur, in).made <= MaxRand
           /\ FirstRun(JoinRoomBegin(Cur, in), "joinRoom",
                  [args |-> in, roster |-> NoRoster, idle |-> NotInRoom(Cur),
                   prev |-> roomId, alone |-> TRUE], c)

JoinRoomCall(Args) == JoinRoomCallUpTo(Args, MaxLoops, MaxTasks)

JoinRoomStep(Rs, Kinds) ==
    /\ Ready
    /\ \E t \in BagToSet(tasks) :
           /\ t.op = "joinRoom"
           /\ \E r \in Outcomes(t.k, Kinds \cup Requests0) :
                  \E roster \in IF t.k.at = "join" /\ r = "ok" THEN Rs ELSE {t.in.roster} :
                      Settle(JoinRoomResume(Load(Cur, t), t.k, r, roster), "joinRoom",
                             [t.in EXCEPT !.roster = roster])

\* the loop tasks alive when leaveRoom gets past its guard are stale
Stale(s) ==
    IF s.k = Ret THEN s
    ELSE [s EXCEPT !.loops = BagOfAll(LAMBDA l : [l EXCEPT !.stale = TRUE], @)]

LeaveRoomCallUpTo(c) ==
    /\ Ready
    /\ FirstRun(Stale(LeaveRoomBegin(Cur)), "leaveRoom",
            [ran |-> ~NotInRoom(Cur), alone |-> TRUE], c)

LeaveRoomCall == LeaveRoomCallUpTo(MaxTasks)

LeaveRoomStep ==
    /\ Ready
    /\ \E t \in BagToSet(tasks), r \in {"ok", "fail"} :
           /\ t.op = "leaveRoom"
           /\ Settle(LeaveRoomEnd(Load(Cur, t), r), "leaveRoom", t.in)

PublishCallUpTo(c) ==
    /\ Ready
    /\ \E enable \in BOOLEAN :
           FirstRun(PublishBegin(Cur), "publish",
                [enable |-> enable, roster |-> NoRoster, alone |-> TRUE], c)

PublishCall == PublishCallUpTo(MaxTasks)

PublishStep(Rs, Kinds) ==
    /\ Ready
    /\ \E t \in BagToSet(tasks) :
           /\ t.op = "publish"
           /\ \E r \in Outcomes(t.k, Kinds \cup Requests0) :
                  \E roster \in IF t.k.at = "publish" /\ r = "ok" THEN Rs ELSE {t.in.roster} :
                      Settle(PublishResume(Load(Cur, t), t.k, r, t.in.enable, roster),
                             "publish", [t.in EXCEPT !.roster = roster])

StartMediaCallUpTo(c) ==
    /\ Ready
    /\ FirstRun(StartMedia(Cur), "startMedia", [alone |-> TRUE], c)

StartMediaCall == StartMediaCallUpTo(MaxTasks)

StartMediaStep ==
    /\ Ready
    /\ \E t \in BagToSet(tasks), r \in {"ok", "fail"} :
           /\ t.op = "startMedia"
           /\ Settle(StartMediaEnd(Load(Cur, t), r), "startMedia", t.in)

StopMediaCall ==
    /\ Ready
    /\ Done(StopMedia(Cur), "stopMedia", [alone |-> TRUE])

LoadIceCall ==
    /\ Ready
    /\ FirstRun(LoadIce(Cur, "loadIce", Null), "loadIce", [alone |-> TRUE], MaxTasks)

LoadIceStep ==
    /\ Ready
    /\ \E t \in BagToSet(tasks), r \in {"ok", "empty", "fail"} :
           /\ t.op = "loadIce"
           /\ Settle(LoadIceEnd(Load(Cur, t), r), "loadIce", t.in)

PollResponseIn(LastMids) ==
    /\ Ready
    /\ \E l \in BagToSet(loops), last_mid \in LastMids, more \in BOOLEAN :
           /\ l.st = "polling"
           /\ Done(PollResponseOp(Cur, l, last_mid, more), "poll",
                   [last_mid |-> last_mid, more |-> more, since |-> l.since,
                    stale |-> l.stale])

PollError ==
    /\ Ready
    /\ \E l \in BagToSet(loops) :
           /\ l.st = "polling"
           /\ Done(Throw(PollErrorOp(Cur, l), "poll"), "pollError", [stale |-> l.stale])

BackoffDone ==
    /\ Ready
    /\ \E l \in BagToSet(loops) :
           /\ l.st = "backoff"
           /\ Done(WhileCheck(DropLoop(Cur, l), l), "backoffDone", [stale |-> l.stale])

\* the next message of the response a loop task is going through
SignalIn(Ms) ==
    /\ ev = Idle
    /\ \E l \in BagToSet(loops), m \in Ms, more \in BOOLEAN :
           /\ l.st = "iter"
           /\ SettleLoop(SignalOp(Cur, l, m), l, m, more, pcMap)

\* the handler of a polled message is resumed
SignalStep(Kinds) ==
    /\ Ready
    /\ \E l \in BagToSet(loops), more \in BOOLEAN :
           /\ l.st = "handler"
           /\ \E r \in Outcomes(l.k, Kinds) :
                  SettleLoop(HandlerResume([DropLoop(Cur, l) EXCEPT !.fx = l.fx], l, r),
                             l, l.m, more, l.held)

\* The session's whole life: every operation, in a room of two.
Next ==
    \/ CreateRoomCall
    \/ CreateRoomStep
    \/ JoinRoomCall(SomeJoinArgs)
    \/ JoinRoomStep(Short(PairRosters), FaultKinds)
    \/ LeaveRoomCall
    \/ LeaveRoomStep
    \/ PublishCall
    \/ PublishStep(Short(PairParticipants), FaultKinds)
    \/ StartMediaCall
    \/ StartMediaStep
    \/ StopMediaCall
    \/ LoadIceCall
    \/ LoadIceStep
    \/ PollResponseIn({0})
    \/ PollError
    \/ BackoffDone
    \/ SignalIn(PairOffers)
    \/ SignalStep(FaultKinds)
    \/ Return

Spec == Init /\ [][Next]_vars

\* Joining: every argument, the rosters of a room of three, few kinds of
\* message.
NextJoin ==
    \/ CreateRoomCall
    \/ CreateRoomStep
    \/ JoinRoomCall(JoinArgs)
    \/ JoinRoomStep(JoinRosters, {"media", "rtc"})
    \/ LeaveRoomCall
    \/ LeaveRoomStep
    \/ PollResponseIn({0, MaxMid})
    \/ PollError
    \/ BackoffDone
    \/ SignalIn({m \in FewMsgs : m.from = "b"})
    \/ SignalStep({})
    \/ Return

SpecJoin == Init /\ [][NextJoin]_vars

\* The poll loop: every message, few kinds of join.
NextPoll ==
    \/ JoinRoomCall(FewJoinArgs)
    \/ JoinRoomStep(Short(FewRosters), {})
    \/ LeaveRoomCall
    \/ LeaveRoomStep
    \/ PollResponseIn(0..MaxMid)
    \/ PollError
    \/ BackoffDone
    \/ SignalIn(Msgs)
    \/ SignalStep(FaultKinds)
    \/ Return

SpecPoll == Init /\ [][NextPoll]_vars

\* ---- what an operation did, read from its record ----
Fields == <<roomId, clientId, role, isPublisher, localStream, pcMap, lastMid,
            pollAbort, iceServers, loops>>
Held == Keys(pcMap)
\* the participants a roster lists
Listed(roster) == {roster[i].client_id : i \in DOMAIN roster}
Effects(fx) == {fx[i] : i \in 1..Len(fx)}
Created(fx) == SelectSeq(fx, LAMBDA e : e.k = "pc" /\ e.a = "create")
Closed(fx) == SelectSeq(fx, LAMBDA e : e.k = "pc" /\ e.a = "close")
Sent(fx) == SelectSeq(fx, LAMBDA e : e.k \in {"signal", "reqfail"} /\ e.a \in Types)
Callbacks(fx) == SelectSeq(fx, LAMBDA e : e.k = "cb")
Dispatched(fx) == SelectSeq(fx, LAMBDA e : e.k = "call")
Requests(fx) == SelectSeq(fx, LAMBDA e : e.k \in {"req", "reqfail"})
PollRequest == E("req", "poll", Null)
OnlyPollRequests(fx) == \A i \in 1..Len(fx) : fx[i] = PollRequest
\* the step is the first run of the public call op, which stops at an await
Suspends(op) ==
    /\ BagCardinality(tasks') > BagCardinality(tasks)
    /\ \E t \in BagToSet(tasks') : t.op = op /\ CopiesIn(t, tasks') > CopiesIn(t, tasks)
\* the step is a call of leaveRoom: it returns at its guard or stops at its await
LeaveCalled == Suspends("leaveRoom") \/ (ev'.op = "leaveRoom" /\ tasks' = tasks)
\* the step takes the next message of a response
MessageTaken == ev = Idle /\ ~Quiet
\* the polled message of the record e, of the given type, was dispatched
Handled(e, type) == e.op = "signal" /\ e.in.m.type = type /\ Dispatched(e.fx) # <<>>

\* ======================================================================
\* Peer Pool Manager, Background Refresh Loop, Resilient Call Dispatcher.
\* Their code is not part of the sources at hand; the definitions of this
\* section follow sections 3, 4.1, 4.2 and 4.3 of the design document.
\*
\* pm is the PoolState: peers (base -> PeerRecord), rules, lastRefreshAt,
\* seeds (the configured seed endpoints), the clock `now`, n, the number of
\* operations so far, and what is under way: inflight and lastNet for the
\* network steps of the refresh, call for the call of the dispatcher.
\* Suspension points are the network steps: that of a refresh and the
\* operation a call executes; the clock can advance at each.  One call is
\* under way at a time, and the other operations are applied between calls.
\* pmEv is the record of the last pool operation that completed.  Bases are normalized
\* endpoint strings.  One unit of the clock is 300 seconds, the scale of the
\* recency boost; the clock starts at 1, so that a time of 0 is "never".
\* Of the rules, pick_k, call_timeout and mix are read by nothing modelled,
\* and neither is a record's lastSeenAt (upsert writes it); they are left out.
\* ======================================================================
MaxClock == 2        \* the clock ranges over 1..MaxClock
MaxOps == 3          \* operations on the pool in one run
MaxCalls == 2        \* a call is made as one of the first MaxCalls operations

Bases == {"A", "B", "C", "D"}
ScoreMin == -50
ScoreMax == 50
SuccessStep == 1     \* the "fixed small increment"
FailureStep == 2     \* the "fixed (larger) decrement"
RecencyWeight == 5   \* the "fixed weight" of the recency boost
SliceMin == 3        \* the top slice holds at least 3 records
SlicePercent == 30   \* or 30% of the eligible records
DefaultMaxPool == 3
DefaultRules == [max_pool |-> DefaultMaxPool, fail_cooldown |-> 1, refresh_interval |-> 1]

Min(x, y) == IF x <= y THEN x ELSE y
Clamp(x) == Max(ScoreMin, Min(ScoreMax, x))

NewRecord(score, now) ==
    [score |-> Clamp(score), lastSuccessAt |-> 0, lastFailureAt |-> 0,
     cooldownUntil |-> 0]

Size(p) == Cardinality(DOMAIN p.peers)

\* upsert(base, score): create, or raise the score to max(old, new)
Upsert(p, base, score) ==
    IF base \in DOMAIN p.peers
    THEN [p EXCEPT !.peers[base].score = Max(@, Clamp(score))]
    ELSE [p EXCEPT !.peers = @ @@ (base :> NewRecord(score, p.now))]

\* recordSuccess(base)
RecordSuccessUnclamped(p, base) ==
    [p EXCEPT !.peers[base].lastSuccessAt = p.now,
              !.peers[base].cooldownUntil = 0,
              !.peers[base].score = @ + SuccessStep]
RecordSuccess(p, base) ==
    [p EXCEPT !.peers[base].lastSuccessAt = p.now,
              !.peers[base].cooldownUntil = 0,
              !.peers[base].score = Min(ScoreMax, @ + SuccessStep)]

\* recordFailure(base)
RecordFailure(p, base) ==
    [p EXCEPT !.peers[base].lastFailureAt = p.now,
              !.peers[base].cooldownUntil = p.now + p.rules.fail_cooldown,
              !.peers[base].score = Max(ScoreMin, @ - FailureStep)]

\* select(): the bases it can return (Null for null)
CoolingDown(p, b) == p.peers[b].cooldownUntil > p.now
EligibleOrNone(p) == {b \in DOMAIN p.peers : ~CoolingDown(p, b)}
EligibleAll(p) == DOMAIN p.peers
Eligible(p) ==
    LET ok == {b \in DOMAIN p.peers : ~CoolingDown(p, b)}
    IN  IF ok = {} THEN DOMAIN p.peers ELSE ok
SliceSize(n) == Max(SliceMin, (SlicePercent * n + 99) \div 100)
\* sorted by score, descending; records of equal score in any order
TopSlice(p) ==
    LET el == Eligible(p)
    IN  {b \in el : Cardinality({c \in el : p.peers[c].score > p.peers[b].score})
                        < SliceSize(Cardinality(el))}
\* ten times the selection weight max(0.1, 1 + score)
Weight10(score) == Max(1, 10 * (1 + score))
Select(p) ==
    LET cands == {b \in TopSlice(p) : Weight10(p.peers[b].score) > 0}
    IN  IF cands = {} THEN {Null} ELSE cands

\* rank = score + recencyBoost(lastSuccessAt), as the fraction RankNum / RankDen;
\* recencyBoost = RecencyWeight / (1 + age / 300 s), nothing without a success
RankDen(r, now) == IF r.lastSuccessAt = 0 THEN 1 ELSE 1 + (now - r.lastSuccessAt)
RankNum(r, now) ==
    r.score * RankDen(r, now) + (IF r.lastSuccessAt = 0 THEN 0 ELSE RecencyWeight)
RankGEByScore(r1, r2, now) == r1.score >= r2.score
RankGE(r1, r2, now) ==
    RankNum(r1, now) * RankDen(r2, now) >= RankNum(r2, now) * RankDen(r1, now)

\* enforceCapacity(): the sets of bases it can keep
Keeps(p) ==
    IF Size(p) <= p.rules.max_pool THEN {DOMAIN p.peers}
    ELSE {K \in SUBSET DOMAIN p.peers :
            /\ Cardinality(K) = Max(0, p.rules.max_pool)
            /\ \A k \in K, e \in DOMAIN p.peers \ K :
                   RankGE(p.peers[k], p.peers[e], p.now)}
Keep(p, K) == [p EXCEPT !.peers = [b \in K |-> p.peers[b]]]
EnforceCapacity(p) == {Keep(p, K) : K \in Keeps(p)}

\* rules volunteered by an endpoint overwrite the local ones key by key
MergeRules(rules, incoming) ==
    [k \in DOMAIN rules |-> IF k \in DOMAIN incoming THEN incoming[k] ELSE rules[k]]

\* the candidates of a refresh: the configured seeds and the known bases
Candidates(p) == p.seeds \cup DOMAIN p.peers

\* one tick of the refresh loop; resp is what the first responding candidate
\* returned (its rules and its recommended peers), ok = FALSE when every
\* candidate failed
RECURSIVE UpsertAll(_, _)
UpsertAll(p, recs) ==
    IF recs = <<>> THEN p
    ELSE UpsertAll(Upsert(p, Head(recs).base, Head(recs).score), Tail(recs))
Debounced(p) == p.now - p.lastRefreshAt < p.rules.refresh_interval
Refresh(p, resp) ==
    IF Debounced(p) THEN {p}
    ELSE LET p1 == [p EXCEPT !.lastRefreshAt = p.now]
         IN  IF ~resp.ok THEN EnforceCapacity(p1)
             ELSE EnforceCapacity(
                      UpsertAll([p1 EXCEPT !.rules = MergeRules(@, resp.rules)],
                                resp.peers))

\* The refresh in two steps, for the triggers that arrive while its network
\* step is under way.  inflight is the bag of the times at which the refreshes
\* under way started their network step; lastNet is the time the latest of
\* all network steps started (0: none yet).
\* mutant of RefreshBegin: lastRefreshAt is not written before the network step
RefreshBeginUnmarked(p) ==
    IF Debounced(p) \/ Candidates(p) = {} THEN p
    ELSE [p EXCEPT !.lastNet = p.now, !.inflight = @ (+) SetToBag({p.now})]

\* the tick up to its first network attempt; without a candidate there is
\* none, and nothing to evict or to learn
RefreshBegin(p) ==
    IF Debounced(p) THEN p
    ELSE IF Candidates(p) = {} THEN [p EXCEPT !.lastRefreshAt = p.now]
    ELSE [p EXCEPT !.lastRefreshAt = p.now,
                   !.lastNet = p.now, !.inflight = @ (+) SetToBag({p.now})]

\* the tick from the answer of the first candidate that responds, or from the
\* failure of the last one
RefreshFinish(p, started, resp) ==
    LET p1 == [p EXCEPT !.inflight = @ (-) SetToBag({started})]
    IN  IF ~resp.ok THEN EnforceCapacity(p1)
        ELSE EnforceCapacity(
                 UpsertAll([p1 EXCEPT !.rules = MergeRules(@, resp.rules)], resp.peers))

\* call(operation, {retries}), run by run.  call is the call under way: at is
\* the network step it waits for ("refresh": that of its refresh check,
\* started at `started`; "operation": the operation, executed against peer),
\* left the attempts it has still to make, log the attempts made (peer,
\* success, the peer's cooldownUntil once recorded), result the peer whose result is returned or the failure
\* raised.  History fields: tried, the attempts begun; first and at0, the
\* records and the time when the call began; learned, a refresh check of the
\* call has changed a record.
Attempt(b, ok, until) == [peer |-> b, ok |-> ok, until |-> until]
NoCall == [at |-> "none"]
AttemptsOneMore(retries) == Max(0, retries) + 2
Attempts(retries) == Max(0, retries) + 1
NewCall(p, retries) ==
    [at |-> "start", retries |-> retries, left |-> Attempts(retries), peer |-> Null,
     started |-> 0, log |-> <<>>, result |-> Null,
     tried |-> 0, first |-> p.peers, at0 |-> p.now, learned |-> FALSE]
Finish(p, result) == [p EXCEPT !.call.at = "done", !.call.result = result]

\* an attempt from its select(): the operation is executed against the peer
\* selected; without a peer the call fails with the no-peers condition
RECURSIVE AttemptBegin(_)
SelectStepRetryingNoPeers(p) ==
    UNION {IF b # Null
           THEN {[p EXCEPT !.call.at = "operation", !.call.peer = b]}
           ELSE IF p.call.left <= 1 THEN {Finish(p, "no peers")}
           ELSE AttemptBegin([p EXCEPT !.call.left = @ - 1])
           : b \in Select(p)}
SelectStep(p) ==
    UNION {IF b # Null
           THEN {[p EXCEPT !.call.at = "operation", !.call.peer = b]}
           ELSE {Finish(p, "no peers")}
           : b \in Select(p)}

\* an attempt from its beginning: the refresh check, up to its network step
\* when it is due and has a candidate, else on to select()
AttemptBegin(p) ==
    LET p0 == [p EXCEPT !.call.tried = @ + 1]
        p1 == RefreshBegin(p0)
    IN  IF p1.inflight # p0.inflight
        THEN {[p1 EXCEPT !.call.at = "refresh", !.call.started = p1.now]}
        ELSE SelectStep(p1)

\* the call up to its first network step
CallBegin(p, retries) == AttemptBegin([p EXCEPT !.call = NewCall(p, retries)])

\* the call from the end of the network step of its refresh check
CallRefreshed(p, resp) ==
    UNION {SelectStep([q EXCEPT !.call.learned = @ \/ q.peers # p.peers])
           : q \in RefreshFinish(p, p.call.started, resp)}

\* the call from the outcome of the operation: success is recorded and the
\* result returned; failure is recorded and raised after the last attempt,
\* else the next attempt begins
CallAnswered(p, ok) ==
    LET b == p.call.peer
        r == IF ok THEN RecordSuccess(p, b) ELSE RecordFailure(p, b)
        q == [r EXCEPT !.call.log = Append(@, Attempt(b, ok, r.peers[b].cooldownUntil)),
                       !.call.left = @ - 1]
    IN  IF ok THEN {Finish(q, b)}
        ELSE IF q.call.left = 0 THEN {Finish(q, "failed")}
        ELSE AttemptBegin(q)

\* ---- the pool's operations as steps ----
\* As for the session: an operation that completes leaves its record in pmEv
\* (with the pool before its last run), and PmReturn clears it; a run of a
\* call that stops at a network step records nothing.
PmIdle == [op |-> "idle", in |-> Null, out |-> Null, before |-> Null]
PmDone(p, op, in, out) ==
    /\ pm' = p
    /\ pmEv' = [op |-> op, in |-> in, out |-> out, before |-> pm]
    /\ UNCHANGED <<Fields, ev, justLeft, live, tasks, made, clients, net>>
PmReturn ==
    /\ pmEv.op # "idle"
    /\ pmEv' = PmIdle
    /\ UNCHANGED <<Fields, ev, justLeft, live, tasks, made, pm, clients, net>>
PmPending(p) ==
    /\ pm' = p
    /\ UNCHANGED <<Fields, ev, justLeft, live, tasks, made, pmEv, clients, net>>
Counted(p) == [p EXCEPT !.n = @ + 1]
\* no operation waits to be observed, and no call is under way
PmReady == pmEv.op = "idle" /\ pm.call.at = "none"
\* the end of a run of the call
CallSettle(q) ==
    IF q.call.at = "done"
    THEN PmDone([q EXCEPT !.call = NoCall], "call", q.call.retries,
                [log |-> q.call.log, result |-> q.call.result, tried |-> q.call.tried,
                 first |-> q.call.first, at0 |-> q.call.at0, learned |-> q.call.learned])
    ELSE PmPending(q)

Peer(b, sc) == [base |-> b, score |-> sc]
NoResponse == [ok |-> FALSE, rules |-> [max_pool |-> DefaultMaxPool], peers |-> <<>>]
Responses ==
    {NoResponse,
     [ok |-> TRUE, rules |-> [max_pool |-> DefaultMaxPool], peers |-> <<Peer("D", 0)>>],
     [ok |-> TRUE, rules |-> [max_pool |-> DefaultMaxPool - 1], peers |-> <<>>],
     [ok |-> TRUE, rules |-> [fail_cooldown |-> 2],
      peers |-> <<Peer("C", 7), Peer("D", 0)>>]}
\* what the candidates of a call's refresh check return
CallResponses ==
    {NoResponse,
     [ok |-> TRUE, rules |-> [max_pool |-> 0], peers |-> <<>>],
     [ok |-> TRUE, rules |-> [max_pool |-> DefaultMaxPool], peers |-> <<Peer("D", 0)>>],
     [ok |-> TRUE, rules |-> [fail_cooldown |-> 0], peers |-> <<>>]}
Retries == {-1, 0, 1, 2}

UpsertIn(Bs, Scores) ==
    /\ PmReady
    /\ pm.n < MaxOps
    /\ \E b \in Bs, sc \in Scores :
           PmDone(Counted(Upsert(pm, b, sc)), "upsert", Peer(b, sc), Null)
RecordSuccessCall ==
    /\ PmReady
    /\ pm.n < MaxOps
    /\ \E b \in DOMAIN pm.peers :
           PmDone(Counted(RecordSuccess(pm, b)), "recordSuccess", b, Null)
RecordFailureCall ==
    /\ PmReady
    /\ pm.n < MaxOps
    /\ \E b \in DOMAIN pm.peers :
           PmDone(Counted(RecordFailure(pm, b)), "recordFailure", b, Null)
SelectCall ==
    /\ PmReady
    /\ \E r \in Select(pm) : PmDone(pm, "select", Null, r)
EnforceCapacityCall ==
    /\ PmReady
    /\ \E q \in EnforceCapacity(pm) : PmDone(q, "enforceCapacity", Null, Null)
RefreshTick ==
    /\ PmReady
    /\ pm.n < MaxOps
    /\ \E resp \in Responses :
           /\ resp.ok => Candidates(pm) # {}
           /\ \E q \in Refresh(pm, resp) :
                  PmDone(Counted(q), "refresh", resp, ~Debounced(pm))
\* call(operation, {retries}) is called
DispatcherCallIn(Rs) ==
    /\ PmReady
    /\ pm.n < MaxCalls
    /\ \E retries \in Rs : \E q \in CallBegin(Counted(pm), retries) : CallSettle(q)
\* the network step of the call's refresh check ends
DispatcherRefreshed(Resps) ==
    /\ pmEv.op = "idle"
    /\ pm.call.at = "refresh"
    /\ \E resp \in Resps : \E q \in CallRefreshed(pm, resp) : CallSettle(q)
\* the operation succeeds, or fails or is timed out
DispatcherAnswered ==
    /\ pmEv.op = "idle"
    /\ pm.call.at = "operation"
    /\ \E ok \in BOOLEAN : \E q \in CallAnswered(pm, ok) : CallSettle(q)
Tick ==
    /\ pmEv.op = "idle"
    /\ pm.now < MaxClock
    /\ PmDone([pm EXCEPT !.now = @ + 1], "tick", Null, Null)

\* a pool restored from a snapshot and the configured seeds
Seeded == [b \in {"A", "B", "C"} |->
              [NewRecord(0, 1) EXCEPT !.score = CASE b = "A" -> 5 [] b = "B" -> -1 [] OTHER -> 0]]
PoolAt(peers, seeds) ==
    [peers |-> peers, rules |-> DefaultRules, lastRefreshAt |-> 0, seeds |-> seeds,
     now |-> 1, n |-> 0, inflight |-> EmptyBag, lastNet |-> 0, call |-> NoCall]
\* with a seed configured or none; a configured seed has its record
Pools ==
    {PoolAt([b \in S |-> Seeded[b]], sd) :
        S \in SUBSET DOMAIN Seeded, sd \in {{}, {"A"}}}

\* The pool's whole life, from any of the seeds or from nothing.
InitPeers ==
    /\ SessionInit
    /\ NoRoom
    /\ pm \in {p \in Pools : p.seeds \subseteq DOMAIN p.peers}
    /\ pmEv = PmIdle
NextPeers ==
    \/ UpsertIn(Bases, {7})
    \/ RecordSuccessCall
    \/ RecordFailureCall
    \/ SelectCall
    \/ EnforceCapacityCall
    \/ RefreshTick
    \/ DispatcherCallIn({0})
    \/ DispatcherRefreshed(Responses)
    \/ DispatcherAnswered
    \/ Tick
    \/ PmReturn
SpecPeers == InitPeers /\ [][NextPeers]_vars

\* One record with any score, under successes and failures.
InitScore ==
    /\ SessionInit
    /\ NoRoom
    /\ pm \in {PoolAt("A" :> [NewRecord(0, 1) EXCEPT !.score = s], {"A"}) :
                 s \in ScoreMin..ScoreMax}
    /\ pmEv = PmIdle
NextScore ==
    \/ RecordSuccessCall
    \/ RecordFailureCall
    \/ Tick
    \/ PmReturn
SpecScore == InitScore /\ [][NextScore]_vars

\* C11: whatever successes and failures are recorded on a record, and from
\* whatever score in range it starts, its score is within [-50, 50] after
\* each of them.
C11_ScoreWithinBounds ==
    \A b \in DOMAIN pm.peers : -50 <= pm.peers[b].score /\ pm.peers[b].score <= 50
\* a success was recorded on a record that already had the highest score
C11_Witness ==
    /\ pmEv.op = "recordSuccess"
    /\ pmEv.before.peers[pmEv.in].score = 50
    /\ pm.peers[pmEv.in].score = 50

\* C12: select() returns null exactly when the pool is empty; from a pool
\* that is not empty, also when every record is cooling down, it returns the
\* base of a record of the pool.
C12_SelectNullIffEmpty ==
    pmEv.op = "select" =>
        /\ (pmEv.out = Null) <=> (DOMAIN pm.peers = {})
        /\ pmEv.out # Null => pmEv.out \in DOMAIN pm.peers
\* select() returned a base although every record of the pool was cooling down
C12_Witness ==
    /\ pmEv.op = "select"
    /\ DOMAIN pm.peers # {}
    /\ \A b \in DOMAIN pm.peers : pm.peers[b].cooldownUntil > pm.now
    /\ pmEv.out \in DOMAIN pm.peers

\* C13 as claimed: select() never returns a record whose cooldownUntil lies
\* in the future.
C13_CoolingNeverSelected ==
    (pmEv.op = "select" /\ pmEv.out # Null) => pm.peers[pmEv.out].cooldownUntil <= pm.now
\* C13, amended: while some record of the pool is not cooling down, select()
\* returns no record whose cooldownUntil lies in the future (when all of them
\* are cooling down it falls back to the whole pool), and a record whose
\* cooldownUntil has passed is in the eligible set; with the pool
\* {A: score 5, B: score -3, cooling down} every select() returns A.
C13_CoolingExcludedWhileOthersEligible ==
    pmEv.op = "select" =>
        /\ \A b \in DOMAIN pm.peers : pm.peers[b].cooldownUntil <= pm.now => b \in Eligible(pm)
        /\ (\E b \in DOMAIN pm.peers : pm.peers[b].cooldownUntil <= pm.now)
               => (pmEv.out # Null /\ pm.peers[pmEv.out].cooldownUntil <= pm.now)
        /\ (/\ DOMAIN pm.peers = {"A", "B"}
            /\ pm.peers["A"].score = 5 /\ pm.peers["A"].cooldownUntil <= pm.now
            /\ pm.peers["B"].score = -3 /\ pm.peers["B"].cooldownUntil > pm.now)
               => pmEv.out = "A"
\* select() on the pool {A: 5, B: -3, cooling down}
C13_Witness ==
    /\ pmEv.op = "select"
    /\ DOMAIN pm.peers = {"A", "B"}
    /\ pm.peers["A"].score = 5 /\ pm.peers["A"].cooldownUntil <= pm.now
    /\ pm.peers["B"].score = -3 /\ pm.peers["B"].cooldownUntil > pm.now
    /\ pmEv.out = "A"

\* C14: after enforceCapacity the pool holds at most max_pool records, each
\* of them a record it held before, unchanged, and no record it kept ranks
\* lower (score plus recency boost) than a record it evicted.
C14_CapacityKeepsTopRanked ==
    pmEv.op = "enforceCapacity" =>
        LET old == pmEv.before.peers
            at == pmEv.before.now
        IN  /\ Cardinality(DOMAIN pm.peers) <= pm.rules.max_pool
            /\ DOMAIN pm.peers \subseteq DOMAIN old
            /\ \A k \in DOMAIN pm.peers : pm.peers[k] = old[k]
            /\ \A k \in DOMAIN pm.peers, e \in DOMAIN old \ DOMAIN pm.peers :
                   RankNum(old[k], at) * RankDen(old[e], at)
                       >= RankNum(old[e], at) * RankDen(old[k], at)
\* enforceCapacity evicted a record and kept one of lower score for its
\* recent success
C14_Witness ==
    /\ pmEv.op = "enforceCapacity"
    /\ \E k \in DOMAIN pm.peers, e \in DOMAIN pmEv.before.peers \ DOMAIN pm.peers :
           /\ pmEv.before.peers[k].score < pmEv.before.peers[e].score
           /\ pmEv.before.peers[k].lastSuccessAt # 0

\* C15: in every reachable state of the pool the number of records is at
\* most rules.max_pool.
C15_SizeWithinMaxPool == Cardinality(DOMAIN pm.peers) <= pm.rules.max_pool

\* The dispatcher: calls with every retries value, on pools with records
\* that are cooling down or not, the refresh check of each attempt answered
\* or not, the clock advancing or not while a network step is under way.
NextCall ==
    \/ DispatcherCallIn(Retries)
    \/ DispatcherRefreshed(CallResponses)
    \/ DispatcherAnswered
    \/ RecordFailureCall
    \/ Tick
    \/ PmReturn
SpecCall == InitPeers /\ [][NextCall]_vars

\* ---- what a call did, read from its record ----
\* the attempts made once this step is over
LogAfter == IF pm'.call.at = "none" THEN pmEv'.out.log ELSE pm'.call.log
\* this step is the end of an attempt: the operation has succeeded or failed
AttemptEnds == pm.call.at = "operation" /\ Len(LogAfter) = Len(pm.call.log) + 1
\* the step has recorded the outcome on the peer of the attempt: a success
\* (score up by 1, at most 50; lastSuccessAt; cooldown cleared) or a failure
\* (score down by 2, at least -50; lastFailureAt; cooldownUntil), and has
\* changed no other record
OutcomeRecorded ==
    LET b == pm.call.peer
        a == LogAfter[Len(LogAfter)]
        old == pm.peers[b]
    IN  /\ a.peer = b
        /\ DOMAIN pm'.peers = DOMAIN pm.peers
        /\ \A c \in DOMAIN pm.peers \ {b} : pm'.peers[c] = pm.peers[c]
        /\ a.ok => pm'.peers[b] =
                       [old EXCEPT !.score = IF @ + 1 > 50 THEN 50 ELSE @ + 1,
                                   !.lastSuccessAt = pm.now, !.cooldownUntil = 0]
        /\ ~a.ok => pm'.peers[b] =
                        [old EXCEPT !.score = IF @ - 2 < -50 THEN -50 ELSE @ - 2,
                                    !.lastFailureAt = pm.now,
                                    !.cooldownUntil = pm.now + pm.rules.fail_cooldown]
\* the call that has returned executed the operation at most
\* max(0, retries) + 1 times, its first success was its last execution, and
\* the result of that one is what it returned
StopsAtSuccess ==
    LET log == pmEv.out.log
    IN  /\ Len(log) <= (IF pmEv.in > 0 THEN pmEv.in ELSE 0) + 1
        /\ \A i \in 1..Len(log) :
               log[i].ok => (i = Len(log) /\ pmEv.out.result = log[i].peer)
Penalized ==
    {b \in DOMAIN pmEv.out.first \cap DOMAIN pm.peers :
        pm.peers[b].score < pmEv.out.first[b].score}
Rewarded ==
    {b \in DOMAIN pmEv.out.first \cap DOMAIN pm.peers :
        pm.peers[b].score > pmEv.out.first[b].score}
ThreePeersTwoFail ==
    /\ pmEv.op = "call"
    /\ pmEv.in = 2
    /\ Cardinality(DOMAIN pmEv.out.first) = 3
    /\ Len(pmEv.out.log) = 3
    /\ ~pmEv.out.log[1].ok /\ ~pmEv.out.log[2].ok /\ pmEv.out.log[3].ok
ThirdPeerRewarded ==
    /\ pmEv.out.result = pmEv.out.log[3].peer
    /\ pmEv.out.log[3].peer \notin {pmEv.out.log[1].peer, pmEv.out.log[2].peer}
    /\ pmEv.out.log[1].peer # pmEv.out.log[2].peer
    /\ Cardinality(Penalized) = 2
    /\ Cardinality(Rewarded) = 1
\* none of the records was cooling down when the call began, no refresh
\* check of the call changed a record, and the cooldown that each of the two
\* failures set has not elapsed when the call returns
CooldownsHold ==
    /\ \A b \in DOMAIN pmEv.out.first :
           pmEv.out.first[b].cooldownUntil <= pmEv.out.at0
    /\ ~pmEv.out.learned
    /\ \A i \in 1..2 : pmEv.out.log[i].until > pm.now

\* C16 as claimed: a call executes the operation at most max(0, retries) + 1
\* times, stops at the first success and returns its result, and records one
\* failure on the peer of each failed attempt and one success on the peer of
\* the successful one; on a pool of 3 peers, with retries = 2 and the first
\* two attempts failing, the third peer's result is returned, 2 peers are
\* left penalized and 1 rewarded.
C16_CallRetriesAndRecords ==
    [][/\ AttemptEnds => OutcomeRecorded
       /\ pmEv'.op = "call" => (StopsAtSuccess' /\ (ThreePeersTwoFail' => ThirdPeerRewarded'))]_vars
\* C16, amended: the same, the scenario being one in which none of the 3
\* peers is cooling down when the call begins, no refresh check of the call
\* changes a record, and the cooldown set by each of the two failures has
\* not elapsed when the call returns.
C16_CallRetriesAndRecordsWhileCooling ==
    [][/\ AttemptEnds => OutcomeRecorded
       /\ pmEv'.op = "call"
            => /\ StopsAtSuccess'
               /\ (ThreePeersTwoFail' /\ CooldownsHold') => ThirdPeerRewarded']_vars
\* the scenario: 3 eligible peers, retries = 2, two failures, then a success
\* on the third peer
C16_Witness ==
    /\ ThreePeersTwoFail
    /\ CooldownsHold
    /\ ThirdPeerRewarded

\* C17 as claimed: on an empty pool a call fails at once with the no-peers
\* condition, whatever the retries value: the operation is not executed, no
\* further attempt is made, and no record is created.
C17_NoPeersFailsAtOnce ==
    (pmEv.op = "call" /\ DOMAIN pmEv.out.first = {}) =>
        /\ pmEv.out.result = "no peers"
        /\ pmEv.out.log = <<>>
        /\ pmEv.out.tried = 1
        /\ pm.peers = pmEv.out.first
\* C17, amended: a call fails with the no-peers condition exactly when an
\* attempt finds the pool empty once its refresh check has run; that attempt
\* does not execute the operation, no attempt follows it whatever the
\* retries value, and the pool is empty when the call returns.  On a pool
\* that is empty when the call begins and in which its refresh check creates
\* no record, the first attempt is that one: the operation is never executed
\* and no record is created.
C17_NoPeersFailsOnceRefreshed ==
    pmEv.op = "call" =>
        /\ (pmEv.out.result = "no peers") <=> (pmEv.out.tried = Len(pmEv.out.log) + 1)
        /\ pmEv.out.tried \in {Len(pmEv.out.log), Len(pmEv.out.log) + 1}
        /\ pmEv.out.result = "no peers"
             => /\ DOMAIN pm.peers = {}
                /\ \A i \in 1..Len(pmEv.out.log) : ~pmEv.out.log[i].ok
        /\ (DOMAIN pmEv.out.first = {} /\ ~pmEv.out.learned)
             => /\ pmEv.out.result = "no peers"
                /\ pmEv.out.log = <<>>
                /\ pmEv.out.tried = 1
                /\ pm.peers = pmEv.out.first
\* a call with retries = 2 on the empty pool, whose refresh check has asked
\* the seed and learned nothing
C17_Witness ==
    /\ pmEv.op = "call"
    /\ pmEv.in = 2
    /\ DOMAIN pmEv.out.first = {}
    /\ pmEv.before.call.at = "refresh"
    /\ pmEv.out.result = "no peers"
    /\ pmEv.out.tried = 1
\* C1: within a room membership the polling cursor never decreases: no step
\* of the poll loop (the cursor assignment on a response, the handling of a
\* message) leaves lastMid smaller than it was.
C1_CursorNeverDecreases ==
    [][ev'.op \in {"poll", "signal"} => lastMid' >= lastMid]_vars

\* C2: a leaveRoom called right after a leaveRoom that ran on a joined session
\* is a no-op: it returns at once, with no request, no callback, no field
\* changed, no error.
C2_SecondLeaveIsNoop ==
    [][(justLeft /\ LeaveCalled)
        => (/\ ev'.op = "leaveRoom"
            /\ ev'.fx = <<>>
            /\ ev'.err = Null
            /\ UNCHANGED Fields)]_vars

\* C3: after a leaveRoom that ran on a joined session, roomId and clientId are
\* empty and lastMid is 0.
C3_LeaveResets ==
    (ev.op = "leaveRoom" /\ ev.in.ran)
        => (roomId = Null /\ clientId = Null /\ lastMid = 0)

\* C4: handling an offer from another sender for whom no connection is held
\* when the handling starts creates exactly one connection, for that sender,
\* and sends exactly one signal, an answer addressed to that sender (none
\* when a step of the handling raises: the answer is the last step); when
\* nothing else ran while the handler was suspended, the map holds that one
\* connection more.
C4_OfferFromNewSender ==
    [][(Handled(ev', "offer") /\ ~Has(ev'.in.held, ev'.in.m.from))
        => LET from == ev'.in.m.from
           IN /\ Created(ev'.fx) = <<E("pc", "create", from)>>
              /\ Closed(ev'.fx) = <<>>
              /\ ev'.in.alone => pcMap' = Put(ev'.in.held, from)
              /\ ev'.err = Null => Sent(ev'.fx) = <<E("signal", "answer", from)>>
              /\ ev'.err # Null => \A i \in 1..Len(ev'.fx) : ev'.fx[i].k # "signal"]_vars

C4_Witness ==
    /\ Handled(ev, "offer")
    /\ ev.err = Null
    /\ ev.in.alone
    /\ Created(ev.fx) # <<>>
    /\ Len(pcMap) = 2

\* C5: a joinRoom from an idle session whose roster holds nobody but the local
\* client, and beside which no other call runs, completes with the session in
\* the room, no connection held, no offer sent, and the poll loop started:
\* its first request is out, carrying the current cursor.
C5_JoinEmptyRoom ==
    [][(/\ ev'.op = "joinRoom"
        /\ ev'.err = Null
        /\ ev'.in.idle
        /\ ev'.in.alone
        /\ Listed(ev'.in.roster) \subseteq {clientId'})
        => (/\ roomId' # Null /\ clientId' # Null
            /\ pcMap' = <<>>
            /\ Created(ev'.fx) = <<>>
            /\ Sent(ev'.fx) = <<>>
            /\ ~pollAbort'
            /\ loops' = SetToBag({Loop("polling", lastMid')})
            /\ ev'.fx[Len(ev'.fx)] = PollRequest)]_vars

C5_Witness ==
    /\ ev.op = "joinRoom"
    /\ ev.err = Null
    /\ ev.in.idle
    /\ ev.in.alone
    /\ Listed(ev.in.roster) = {clientId}
    /\ isPublisher

\* C6: a polled message whose sender is the local client is not dispatched: it
\* creates and closes no connection, sends no signal, calls no callback and
\* changes no field but the cursor.
C6_OwnMessagesSkipped ==
    [][(/\ MessageTaken
        /\ \/ ev'.op = "signal" /\ ev'.in.m.from = clientId
           \/ \E h \in BagToSet(loops') :
                  /\ h.st = "handler" /\ h.m.from = clientId
                  /\ CopiesIn(h, loops') > CopiesIn(h, loops))
        => (/\ ev'.op = "signal"
            /\ OnlyPollRequests(ev'.fx)
            /\ ev'.err = Null
            /\ lastMid' = Max(lastMid, ev'.in.m.mid)
            /\ UNCHANGED <<roomId, clientId, role, isPublisher, localStream, pcMap,
                           pollAbort, iceServers>>)]_vars

C6_Witness ==
    /\ ev.op = "signal"
    /\ ev.in.m.from = clientId
    /\ ev.in.m.type = "offer"
    /\ ev.in.m.mid = lastMid
    /\ ev.in.m.mid > ev.in.since

\* C7: a message from another sender whose mid is at most the cursor the poll
\* was issued with is not dispatched to a handler.
C7_SeenNotReprocessed ==
    [][(/\ ev'.op = "signal"
        /\ ev'.in.m.from # clientId
        /\ ev'.in.m.mid <= ev'.in.since)
        => Dispatched(ev'.fx) = <<>>]_vars

\* C8: after a joinRoom that succeeded, and beside which no other call ran,
\* isPublisher is the publisher flag of the first roster entry of the local client
\* (false without one), whatever the intent passed; role is that entry's
\* role, or else the requested role.
C8_ServerDecidesRole ==
    (ev.op = "joinRoom" /\ ev.err = Null /\ ev.in.alone)
        => LET r == ev.in.roster
               mine == {i \in DOMAIN r : r[i].client_id = clientId}
               requested == IF ev.in.args.role # Null THEN ev.in.args.role ELSE "observer"
           IN \/ mine = {} /\ ~isPublisher /\ role = requested
              \/ \E i \in mine :
                    /\ \A j \in mine : i <= j
                    /\ isPublisher = r[i].publisher
                    /\ role = IF r[i].role # Null THEN r[i].role ELSE requested

C8_Witness ==
    /\ ev.op = "joinRoom"
    /\ ev.err = Null
    /\ ev.in.alone
    /\ Len(ev.in.roster) = 2
    /\ ev.in.roster[1].client_id # clientId
    /\ ev.in.roster[2] = [client_id |-> clientId, publisher |-> TRUE, role |-> "host"]
    /\ ev.in.args.publisher = FALSE
    /\ ev.in.args.role = "juror"

\* C9: when the server grants publishing and the local media cannot be
\* acquired, joinRoom raises that error: it never completes as a publisher
\* without a local stream (a joinRoom beside which no other call ran).
C9_MediaFailurePropagates ==
    ev.op = "joinRoom"
        => /\ E("media", "denied", Null) \in Effects(ev.fx) => ev.err = "media"
           /\ (ev.err = Null /\ isPublisher /\ ev.in.alone) => localStream # Null

C9_Witness ==
    /\ ev.op = "joinRoom"
    /\ ev.err = "media"
    /\ isPublisher
    /\ localStream = Null

\* C10: leaveRoom on a session that is in no room (roomId or clientId empty)
\* is a no-op: it returns at once, with no request, nothing closed, no
\* callback, no field changed, no error.
C10_LeaveWhenIdle ==
    [][(LeaveCalled /\ (roomId = Null \/ clientId = Null))
        => (/\ ev'.op = "leaveRoom"
            /\ ev'.fx = <<>>
            /\ ev'.err = Null
            /\ UNCHANGED Fields)]_vars

C10_Witness ==
    /\ ev.op = "leaveRoom"
    /\ ~ev.in.ran
    /\ clientId = Null
    /\ roomId # Null
    /\ localStream # Null

\* C20: a leaveRoom on a joined session, whether its leave request succeeds
\* or fails, closes every connection held when the answer to that request
\* arrives, each once and in the order of the map, and leaves the map empty,
\* stops the local media and drops the stream, and invokes onDisconnected
\* exactly once.
C20_LeaveReleasesEverything ==
    [][(ev'.op = "leaveRoom" /\ ev'.in.ran)
        => /\ pcMap' = <<>>
           /\ Closed(ev'.fx) = [i \in 1..Len(pcMap) |-> E("pc", "close", pcMap[i])]
           /\ localStream' = Null
           /\ (localStream # Null) <=> (E("media", "stop", Null) \in Effects(ev'.fx))
           /\ Callbacks(ev'.fx) = <<E("cb", "onDisconnected", Null)>>
           /\ ev'.err = Null]_vars
\* a leaveRoom whose leave request failed closed the two connections held,
\* the one created first before the other, and stopped the media
C20_Witness ==
    /\ ev.op = "leaveRoom"
    /\ E("reqfail", "leave", Null) \in Effects(ev.fx)
    /\ Closed(ev.fx) = <<E("pc", "close", "c"), E("pc", "close", "b")>>
    /\ E("media", "stop", Null) \in Effects(ev.fx)
    /\ Callbacks(ev.fx) = <<E("cb", "onDisconnected", Null)>>

\* ======================================================================
\* A joined session whose publish() runs beside its poll loop: both call
\* _pcFor, which reads the map, awaits loadIce() and only then creates the
\* connection and stores it.
\* ======================================================================
NextConc ==
    \/ JoinRoomCall(FewJoinArgs)
    \/ JoinRoomStep(Short(FewRosters), {})
    \/ PublishCall
    \/ PublishStep(PairParticipants, {"ice"})
    \/ PollResponseIn({0})
    \/ SignalIn({m \in FewMsgs : m.from = "b"})
    \/ SignalStep({"ice"})
    \/ LeaveRoomCall
    \/ LeaveRoomStep
    \/ Return
SpecConc == Init /\ [][NextConc]_vars

\* C18: the session has at most one live connection per remote participant:
\* every connection created and not closed is the one the map holds for its
\* participant.
C18_OneLiveConnectionPerPeer ==
    \A p \in Ids \cup RandIds : CopiesIn(p, live) = (IF Has(pcMap, p) THEN 1 ELSE 0)

\* ======================================================================
\* Several clients of one room, each a WeAllWebRTC session of its own.
\* clients maps a client id to its session record, which holds its suspended
\* joinRoom and its loop task.  net is the signaling server as the sessions
\* see it: the roster, the messages waiting to be polled by each client (in
\* order), resp, the messages of the poll response each client is going
\* through, the number of messages accepted so far, offers, the pairs
\* <<from, to>> of the offers sent, and local, the pairs <<client, peer>> of
\* the connections whose local description is set, which gather candidates.
\* The server answers a join with the roster, the joiner last, announces the
\* join to the members with a presence message, relays a signal to its
\* addressee, and answers a poll with the messages waiting, last_mid being
\* the mid of the last of them; every await of a session is answered with
\* success.
\* ======================================================================
MaxSent == 4         \* messages the server accepts in one run

Clients == {"a", "b", "c"}
NewSession ==
    [roomId |-> Null, clientId |-> Null, role |-> "observer", isPublisher |-> FALSE,
     localStream |-> Null, pcMap |-> <<>>, lastMid |-> 0, pollAbort |-> FALSE,
     iceServers |-> Null, loops |-> EmptyBag, live |-> EmptyBag, tasks |-> EmptyBag,
     made |-> 0, fx |-> <<>>, err |-> Null, k |-> Ret, rest |-> <<>>]
\* the session once its run is over
Settled(s) == [s EXCEPT !.fx = <<>>, !.err = Null, !.k = Ret, !.rest = <<>>]
\* the session at the end of a run of its joinRoom
AfterJoinRun(s, in) ==
    Settled(IF Suspended(s) THEN AddTask(s, Task("joinRoom", s.k, s.rest, in, <<>>)) ELSE s)
\* the session at the end of a run of its loop task l handling m, with or
\* without more messages in the response
AfterLoopRun(s, l, m, more) ==
    Settled(IF Suspended(s)
            THEN AddLoop(s, [Moved(l, "handler", l.since) EXCEPT !.m = m, !.k = s.k])
            ELSE SignalEnd(s, l, more))
\* the connections whose local description the run resumed at k has set
LocalSet(c, k, s) ==
    IF k.at = "setLocal" /\ Ok(s) THEN {<<c, k.peer>>} ELSE {}

\* the signals a session sent during a run, as the messages the server
\* queues; n is the number of messages accepted before them
SignalsOf(s) == SelectSeq(s.fx, LAMBDA e : e.k = "signal")
Relayed(s, n) ==
    [i \in 1..Len(SignalsOf(s)) |->
        [mid |-> n + i, from |-> s.clientId, type |-> SignalsOf(s)[i].a,
         to |-> SignalsOf(s)[i].to, who |-> Null, event |-> Null]]
Presence(n, c, o) ==
    [mid |-> n, from |-> c, type |-> "presence", to |-> o, who |-> c, event |-> "join"]
\* a queued message as the addressee polls it
Polled(m) ==
    [mid |-> m.mid, from |-> m.from, type |-> m.type, who |-> m.who, event |-> m.event]
RECURSIVE Enqueue(_, _)
Enqueue(inbox, msgs) ==
    IF msgs = <<>> THEN inbox
    ELSE Enqueue([inbox EXCEPT ![Head(msgs).to] = Append(@, Head(msgs))], Tail(msgs))
Accept(n, msgs) ==
    [n EXCEPT !.inbox = Enqueue(@, msgs),
              !.sent = @ + Len(msgs),
              !.offers = @ \cup {<<msgs[i].from, msgs[i].to>> :
                                    i \in {j \in 1..Len(msgs) : msgs[j].type = "offer"}}]
PairUnchanged == UNCHANGED <<Fields, ev, justLeft, live, tasks, made, pm, pmEv>>

\* client c calls joinRoom
PairJoinCall ==
    \E c \in Clients :
        LET in == [roomId |-> "r1", clientId |-> c, role |-> Null, publisher |-> TRUE]
            s == JoinRoomBegin(clients[c], in)
        IN  /\ clients[c].roomId = Null
            /\ clients' = [clients EXCEPT ![c] =
                              AfterJoinRun(s, [args |-> in, roster |-> NoRoster])]
            /\ UNCHANGED net
            /\ PairUnchanged

\* the joinRoom of client c is resumed; the answer to its join request is
\* the roster with c in it, with the publisher flag the server grants, and
\* the server then holds that roster
PairJoinStep ==
    \E c \in Clients :
        \E t \in BagToSet(clients[c].tasks), pub \in BOOLEAN :
            LET joining == t.k.at = "join"
                roster == IF joining
                          THEN Append(net.roster,
                                      [client_id |-> c, publisher |-> pub, role |-> Null])
                          ELSE t.in.roster
                others == IF joining THEN ClientIds(net.roster) ELSE <<>>
                announced == [i \in 1..Len(others) |-> Presence(net.sent + i, c, others[i])]
                s == JoinRoomResume(Load(clients[c], t), t.k, "ok", roster)
                joined == IF joining THEN [net EXCEPT !.roster = roster] ELSE net
            IN  /\ pub \/ joining
                /\ net.sent + Len(others) + Len(SignalsOf(s)) <= MaxSent
                /\ clients' = [clients EXCEPT ![c] =
                                  AfterJoinRun(s, [t.in EXCEPT !.roster = roster])]
                /\ net' = Accept(Accept([joined EXCEPT !.local = @ \cup LocalSet(c, t.k, s)],
                                        announced),
                                 Relayed(s, net.sent + Len(others)))
                /\ PairUnchanged

\* client c's poll request is answered with the messages waiting for it: the
\* cursor is assigned from the response, and the loop is at its first message
PairPoll ==
    \E c \in Clients :
        \E l \in BagToSet(clients[c].loops) :
            /\ l.st = "polling"
            /\ net.inbox[c] # <<>>
            /\ LET last_mid == net.inbox[c][Len(net.inbox[c])].mid
               IN  clients' = [clients EXCEPT ![c] =
                                 Settled(PollResponseOp(clients[c], l, last_mid, TRUE))]
            /\ net' = [net EXCEPT !.resp[c] = net.inbox[c], !.inbox[c] = <<>>]
            /\ PairUnchanged

\* the loop task of client c takes the next message of the response
PairDeliver ==
    \E c \in Clients :
        \E l \in BagToSet(clients[c].loops) :
            /\ l.st = "iter"
            /\ LET m == Polled(Head(net.resp[c]))
                   s == SignalOp(clients[c], l, m)
               IN  /\ net.sent + Len(SignalsOf(s)) <= MaxSent
                   /\ clients' = [clients EXCEPT ![c] =
                                     AfterLoopRun(s, l, m, Len(net.resp[c]) > 1)]
                   /\ net' = Accept([net EXCEPT !.resp[c] = Tail(@)], Relayed(s, net.sent))
                   /\ PairUnchanged

\* the handler of client c's loop task is resumed
PairHandlerStep ==
    \E c \in Clients :
        \E l \in BagToSet(clients[c].loops) :
            /\ l.st = "handler"
            /\ LET s == HandlerResume(DropLoop(clients[c], l), l, "ok")
               IN  /\ net.sent + Len(SignalsOf(s)) <= MaxSent
                   /\ clients' = [clients EXCEPT ![c] =
                                     AfterLoopRun(s, l, l.m, net.resp[c] # <<>>)]
                   /\ net' = Accept([net EXCEPT !.local = @ \cup LocalSet(c, l.k, s)],
                                    Relayed(s, net.sent))
                   /\ PairUnchanged

\* pc.onicecandidate of the connection client c holds for p: the candidate
\* is sent to p as a signal, whose answer is not awaited
PairCandidate ==
    \E c \in Clients, p \in Clients :
        /\ <<c, p>> \in net.local
        /\ Has(clients[c].pcMap, p)
        /\ \A l \in BagToSet(clients[c].loops) : l.st # "iter"
        /\ net.sent < MaxSent
        /\ net' = Accept(net, <<[mid |-> net.sent + 1, from |-> c, type |-> "candidate",
                                  to |-> p, who |-> Null, event |-> Null]>>)
        /\ UNCHANGED clients
        /\ PairUnchanged

InitPair ==
    /\ SessionInit
    /\ NoPool
    /\ clients = [c \in Clients |-> NewSession]
    /\ net = [roster |-> NoRoster, inbox |-> [c \in Clients |-> <<>>],
              resp |-> [c \in Clients |-> <<>>], sent |-> 0, offers |-> {}, local |-> {}]
NextPair ==
    \/ PairJoinCall
    \/ PairJoinStep
    \/ PairPoll
    \/ PairDeliver
    \/ PairHandlerStep
    \/ PairCandidate
SpecPair == InitPair /\ [][NextPair]_vars

\* The place of a client id in the lexicographic order of ids.
IdOrder == <<"a", "b", "c">>
Position(id) == CHOOSE i \in 1..Len(IdOrder) : IdOrder[i] = id

\* C19: of two clients of a room only the one whose id is the smaller sends
\* an offer to the other, and the two never both send one to each other.
C19_SmallerIdInitiates ==
    /\ \A o \in net.offers : Position(o[1]) < Position(o[2])
    /\ \A x, y \in Clients : ~(<<x, y>> \in net.offers /\ <<y, x>> \in net.offers)

\* ---- a session that joins again while an earlier poll loop is alive ----
MaxStale == 1        \* loop tasks of earlier memberships alive at a joinRoom

NextLoop ==
    \/ JoinRoomCallUpTo(FewJoinArgs, MaxLoops + MaxStale, MaxTasks)
    \/ JoinRoomStep(Short(FewRosters), {})
    \/ LeaveRoomCall
    \/ LeaveRoomStep
    \/ PollResponseIn({0})
    \/ PollError
    \/ BackoffDone
    \/ SignalIn({m \in FewMsgs : m.from = "b" /\ m.type = "bye"})
    \/ SignalStep({})
    \/ Return

SpecLoop == Init /\ [][NextLoop]_vars

\* C21: once leaveRoom has been called, a poll-loop task that was alive at
\* that time issues no further poll request: the step that brings it back to
\* the loop test (its response handled, its back-off over) ends it.
C21_LoopEndsAfterLeave ==
    [][(ev'.op \in {"poll", "signal", "pollError", "backoffDone"} /\ ev'.in.stale)
        => PollRequest \notin Effects(ev'.fx)]_vars

\* ---- the poll loop's failures ----
InBackoff(ls) == CopiesIn("backoff", BagOfAll(LAMBDA l : l.st, ls))
FailedCycle(e) == e.op = "pollError" \/ (e.op = "signal" /\ e.err # Null)
IssuesPoll(fx) == PollRequest \in Effects(fx)

\* C22: a poll cycle that fails (the request is rejected, or a handler raises)
\* leaves roomId and clientId as they were, and a rejected request leaves the
\* held connections as they were; the failing step issues no poll request and
\* puts its loop task in the back-off, one task more than before being there
\* and no task having ended; a task leaves the back-off only when the delay
\* is over, and then, unless the session has left, issues its next request.
C22_FailedCycleBacksOff ==
    [][/\ FailedCycle(ev')
            => /\ roomId' = roomId /\ clientId' = clientId
               /\ ev'.op = "pollError" => (pcMap' = pcMap /\ live' = live)
               /\ ~IssuesPoll(ev'.fx)
               /\ BagCardinality(loops') = BagCardinality(loops)
               /\ InBackoff(loops') = InBackoff(loops) + 1
       /\ InBackoff(loops') < InBackoff(loops) => ev'.op = "backoffDone"
       /\ (ev'.op = "backoffDone" /\ ~pollAbort)
            => /\ ev'.fx = <<PollRequest>>
               /\ BagCardinality(loops') = BagCardinality(loops)]_vars

\* a handler raised while a connection was held: the task is in the back-off
C22_Witness ==
    /\ ev.op = "signal"
    /\ ev.err # Null
    /\ roomId # Null /\ clientId # Null
    /\ pcMap # <<>>
    /\ InBackoff(loops) = 1

\* C23: when the handling of a signal fails, the session stays in the room
\* (roomId, clientId and the abort flag as they were), the loop task stays
\* alive, and every connection held for a participant other than the one the
\* message is from or about is still held and has not been closed.
C23_HandlerFailureKeepsRoom ==
    [][(ev'.op = "signal" /\ ev'.err # Null)
        => LET m == ev'.in.m
           IN /\ roomId' = roomId /\ clientId' = clientId /\ pollAbort' = pollAbort
              /\ BagCardinality(loops') = BagCardinality(loops)
              /\ \A p \in Held \ {m.from, m.who} :
                    /\ Has(pcMap', p)
                    /\ CopiesIn(p, live') = CopiesIn(p, live)
                    /\ E("pc", "close", p) \notin Effects(ev'.fx)]_vars

\* the answer to an offer could not be sent while a connection was held for
\* another participant
C23_Witness ==
    /\ ev.op = "signal"
    /\ ev.err = "signal"
    /\ ev.in.m.type = "offer"
    /\ Held \ {ev.in.m.from} # {}
    /\ BagCardinality(loops) = 1

\* ---- the handlers ----
PcEffects(fx) == SelectSeq(fx, LAMBDA e : e.k = "pc")

\* C24: handling a candidate message creates no connection and leaves the
\* connection map as it was; the candidate is added to the connection held
\* for the sender, if one is held, and a failure of the add raises nothing.
C24_CandidateCreatesNothing ==
    [][Handled(ev', "candidate")
        => LET from == ev'.in.m.from
           IN /\ Created(ev'.fx) = <<>>
              /\ ev'.in.alone => pcMap' = ev'.in.held
              /\ ev'.err = Null
              /\ \A i \in 1..Len(ev'.fx) :
                    ev'.fx[i].k = "pc"
                        => (ev'.fx[i] = E("pc", "addIce", from) /\ Has(ev'.in.held, from))]_vars

\* C25: handling an answer from a sender for whom no connection is held
\* creates and closes no connection, touches none, sends no signal, raises
\* nothing and changes no field of the session (the loop's cursor aside).
C25_AnswerWithoutConnection ==
    [][(Handled(ev', "answer") /\ ~Has(ev'.in.held, ev'.in.m.from))
        => /\ MessageTaken
           /\ PcEffects(ev'.fx) = <<>>
           /\ Sent(ev'.fx) = <<>>
           /\ Callbacks(ev'.fx) = <<>>
           /\ ev'.err = Null
           /\ UNCHANGED <<roomId, clientId, role, isPublisher, localStream, pcMap,
                          pollAbort, iceServers, live>>]_vars

\* an answer from c was handled while only b's connection is held
C25_Witness ==
    /\ Handled(ev, "answer")
    /\ ~Has(pcMap, ev.in.m.from)
    /\ pcMap # <<>>
    /\ ev.err = Null

\* C26 as stated: after a leave-notice from P no connection is held for P, and
\* the one that was held has been closed, whatever the payload.
C26_ByeDropsSender ==
    [][Handled(ev', "bye")
        => LET from == ev'.in.m.from
           IN /\ ev'.in.alone => ~Has(pcMap', from)
              /\ Has(ev'.in.held, from) => Closed(ev'.fx) = <<E("pc", "close", from)>>]_vars

\* C26: the handling of a leave-notice closes the connection that was held
\* for the participant it names (the client_id of its payload, or else its
\* sender), closes no other and creates none, whether or not the roster
\* request that follows fails; when nothing else ran while the handler was
\* suspended, the map is the one the handler found without that participant.
C26_ByeDropsNamed ==
    [][Handled(ev', "bye")
        => LET id == Named(ev'.in.m)
           IN /\ ev'.in.alone => pcMap' = Del(ev'.in.held, id)
              /\ Closed(ev'.fx) = IF Has(ev'.in.held, id) THEN <<E("pc", "close", id)>>
                                  ELSE <<>>
              /\ Created(ev'.fx) = <<>>]_vars

\* a notice sent by one participant named another: that one's connection was
\* closed, the sender's is still held
C26_Witness ==
    /\ Handled(ev, "bye")
    /\ ev.in.m.who \notin {Null, ev.in.m.from, clientId}
    /\ Closed(ev.fx) = <<E("pc", "close", ev.in.m.who)>>
    /\ Has(pcMap, ev.in.m.from)
    /\ ~Has(pcMap, ev.in.m.who)

\* ---- who initiates offers ----
\* the await of the api.signal by which _makeOffer sends its offer
OfferSent(k) == k.sub = "makeOffer" /\ k.at = "signal"
\* the offers sent and not yet answered, by public calls and by handlers
OffersUnderWay(ts, ls) ==
    CopiesIn(TRUE, BagOfAll(LAMBDA t : OfferSent(t.k), ts))
        + CopiesIn(TRUE, BagOfAll(LAMBDA l : OfferSent(l.k), ls))

\* C27: a session whose isPublisher is false sends no offer: every run of a
\* joinRoom, of a publish or of a message handler that ends by sending an
\* offer is made while isPublisher is true.
C27_OffersOnlyWhilePublishing ==
    [][OffersUnderWay(tasks', loops') > OffersUnderWay(tasks, loops) => isPublisher']_vars

\* the types _handleSignal has a branch for
Recognized == {"offer", "answer", "candidate", "bye", "presence"}

\* C28: the handling of a polled message from another sender whose type is
\* not one _handleSignal has a branch for invokes onMessage once, with that
\* message, and no other callback; it creates, closes and touches no
\* connection, sends no signal and raises nothing.
C28_OtherTypesSurfaced ==
    [][(/\ MessageTaken
        /\ ev'.op = "signal"
        /\ ev'.in.m.from # clientId
        /\ ev'.in.m.type \notin Recognized)
        => /\ Callbacks(ev'.fx) = <<E("cb", "onMessage", ev'.in.m.from)>>
           /\ PcEffects(ev'.fx) = <<>>
           /\ Sent(ev'.fx) = <<>>
           /\ ev'.err = Null
           /\ pcMap' = pcMap /\ live' = live]_vars

\* a message of another type was surfaced while a connection was held, its
\* mid not above the cursor the poll was issued with
C28_Witness ==
    /\ ev.op = "signal"
    /\ ev.in.m.type = "chat"
    /\ ev.in.m.from # clientId
    /\ ev.in.m.mid <= ev.in.since
    /\ Callbacks(ev.fx) = <<E("cb", "onMessage", ev.in.m.from)>>
    /\ pcMap # <<>>

\* ---- what joinRoom leaves ----
\* C29: after a joinRoom that succeeded without publishing being granted, the
\* tracks of the local stream, if one is held, are disabled, and joinRoom has
\* stopped none.
C29_WatchOnlyTracksDisabled ==
    (ev.op = "joinRoom" /\ ev.err = Null /\ ~isPublisher)
        => /\ localStream # "live"
           /\ E("media", "stop", Null) \notin Effects(ev.fx)

\* C30: after a joinRoom that succeeded, a connection is held for every
\* participant of the roster returned by the join other than the local client.
C30_ConnectionPerRosterEntry ==
    (ev.op = "joinRoom" /\ ev.err = Null)
        => Listed(ev.in.roster) \ {clientId} \subseteq Held

\* ---- the ICE server list ----
\* the calls and handlers waiting for the answer to a getIceServers request
IceWaits(ts, ls) ==
    CopiesIn("ice", BagOfAll(LAMBDA t : t.k.at, ts))
        + CopiesIn("ice", BagOfAll(LAMBDA l : l.k.at, ls))

\* C31: the ICE server list is requested at most once: a run sends a request
\* for it only when none was sent before (the list is not held and nothing
\* is waiting for the answer to one); once a request is answered, with the
\* list or a failure, a list is held.
C31_IceRequestedOnce ==
    [][/\ IceWaits(tasks', loops') > IceWaits(tasks, loops)
            => (iceServers = Null /\ IceWaits(tasks, loops) = 0)
       /\ IceWaits(tasks', loops') < IceWaits(tasks, loops)
            => iceServers' \in {"list", "stun"}]_vars

\* ---- triggers of the refresh check while a refresh is under way ----
RefreshResponses ==
    Responses \cup {[ok |-> TRUE, rules |-> [refresh_interval |-> 2], peers |-> <<>>]}

RefreshBeginCall ==
    /\ PmReady
    /\ pm.n < MaxOps
    /\ PmDone(Counted(RefreshBegin(pm)), "refreshBegin", Null, Null)
RefreshFinishIn(Rs) ==
    /\ PmReady
    /\ \E started \in BagToSet(pm.inflight), resp \in Rs :
           \E q \in RefreshFinish(pm, started, resp) :
               PmDone(q, "refreshFinish", resp, started)

InitRefresh ==
    /\ SessionInit
    /\ NoRoom
    /\ pm \in {p \in Pools : p.seeds \subseteq DOMAIN p.peers}
    /\ pmEv = PmIdle
NextRefresh ==
    \/ RefreshBeginCall
    \/ RefreshFinishIn(RefreshResponses)
    \/ Tick
    \/ PmReturn
SpecRefresh == InitRefresh /\ [][NextRefresh]_vars

\* C32: a trigger of the refresh check goes on to the network step only when
\* no network step of a refresh, finished or still under way, started less
\* than refresh_interval ago: of the triggers that arrive at the same time at
\* most one performs the network refresh.
C32_OneNetworkRefreshPerInterval ==
    [][(pmEv'.op = "refreshBegin"
        /\ BagCardinality(pm'.inflight) > BagCardinality(pm.inflight))
        => /\ pm.lastNet = 0 \/ pm.now - pm.lastNet >= pm.rules.refresh_interval
           /\ CopiesIn(pm.now, pm'.inflight) = 1]_vars

\* a trigger found the refresh that started at this very time under way, and
\* did nothing
C32_Witness ==
    /\ pmEv.op = "refreshBegin"
    /\ pm.inflight = pmEv.before.inflight
    /\ CopiesIn(pm.now, pm.inflight) = 1
    /\ pm.lastRefreshAt = pm.now

\* ---- the poll loop and the calls of joinRoom and leaveRoom ----
\* C33: at most one poll-loop task that has not been told to stop is alive:
\* whenever the abort flag is down, the session has at most one.
C33_OnePollLoop ==
    ~pollAbort => BagCardinality(loops) <= 1

\* C34: once leaveRoom has completed, and until the next joinRoom, the
\* messages of a poll response are not dispatched, and no step of a poll
\* loop leaves a connection in the map.
C34_LateResponseIgnored ==
    [][(pollAbort /\ tasks = EmptyBag)
        => /\ MessageTaken => (ev'.op = "signal" /\ Dispatched(ev'.fx) = <<>>)
           /\ ev'.op \in {"poll", "signal"} => pcMap' = <<>>]_vars

\* C35: no message of a poll response is lost: when the handling of a message
\* fails with messages of the same response left, either the loop task goes on
\* with them or the cursor has not moved past the failed message, so that the
\* next poll returns them again.
C35_NoMessageLost ==
    [][(ev'.op = "signal" /\ ev'.err # Null /\ ev'.in.more)
        => \/ \E l \in BagToSet(loops') : l.st = "iter"
           \/ lastMid' <= ev'.in.m.mid]_vars

\* C36 as stated: a leave-notice sent by P closes and removes no connection
\* but P's.
C36_ByeAffectsOnlySender ==
    [][Handled(ev', "bye")
        => \A q \in Keys(ev'.in.held) \ {ev'.in.m.from} :
              /\ ev'.in.alone => Has(pcMap', q)
              /\ E("pc", "close", q) \notin Effects(ev'.fx)]_vars

\* C36: the handling of a leave-notice closes no connection but the one held
\* for the participant it names (the client_id of its payload, or else its
\* sender), and when nothing else ran while the handler was suspended every
\* other connection, the sender's included when the payload names someone
\* else, is still open and in the map.
C36_ByeAffectsOnlyNamed ==
    [][Handled(ev', "bye")
        => \A q \in Keys(ev'.in.held) \ {Named(ev'.in.m)} :
              /\ E("pc", "close", q) \notin Effects(ev'.fx)
              /\ ev'.in.alone => (Has(pcMap', q) /\ CopiesIn(q, live') = 1)]_vars

\* a notice sent by b named c while connections were held for both: b's is
\* still held
C36_Witness ==
    /\ Handled(ev, "bye")
    /\ ev.in.alone
    /\ ev.in.m.from = "b"
    /\ ev.in.m.who = "c"
    /\ Closed(ev.fx) = <<E("pc", "close", "c")>>
    /\ pcMap = <<"b">>
    /\ CopiesIn("b", live) = 1

\* C37: a joinRoom whose join request is rejected on a session that held no
\* room leaves it idle: no room id and no client id are retained and no poll
\* loop runs, so that a following leaveRoom has nothing to leave.
C37_RejectedJoinLeavesIdle ==
    [][(ev'.op = "joinRoom" /\ ev'.err = "join" /\ ev'.in.prev = Null)
        => roomId' = Null /\ clientId' = Null /\ loops' = EmptyBag]_vars

\* ---- joining a room with other participants, leaving it, joining another ----

\* joinRoom's arguments when the caller names one of two rooms
RejoinArgs ==
    [roomId : Rooms \cup {"r2"}, clientId : GivenIds, role : {Null}, publisher : {TRUE}]

\* rosters in which the server granted publishing to the local client "a" and
\* lists one more participant, "b"
OfferRosters ==
    {r \in PairRosters : /\ Len(r) = 2
                         /\ r[1] = [client_id |-> "a", publisher |-> TRUE, role |-> Null]
                         /\ r[2].client_id = "b"}

NextRejoin ==
    \/ JoinRoomCall(RejoinArgs)
    \/ JoinRoomStep(OfferRosters \cup FewRosters, {"rtc", "signal"})
    \/ LeaveRoomCall
    \/ LeaveRoomStep
    \/ PollResponseIn({0, MaxMid})
    \/ SignalIn({m \in FewMsgs : m.from = "b" /\ m.type = "bye"})
    \/ SignalStep({})
    \/ Return

SpecRejoin == Init /\ [][NextRejoin]_vars

\* C38: when the server accepted the join and the initial offer to a
\* participant failed, joinRoom has still issued the first poll of its loop.
C38_OfferFailureStillPolls ==
    (/\ ev.op = "joinRoom"
     /\ ev.err \in {"rtc", "signal"}
     /\ E("req", "join", Null) \in Effects(ev.fx))
        => E("req", "poll", Null) \in Effects(ev.fx)

\* C39: the poll loop started by a joinRoom that enters another room than the
\* one held before, whose loop has ended, polls with cursor 0.
C39_FirstPollFromZero ==
    [][(/\ ev'.op = "joinRoom"
        /\ ev'.err = Null
        /\ ev'.in.prev # Null
        /\ roomId' # ev'.in.prev
        /\ loops = EmptyBag)
        => \A l \in BagToSet(loops') : l.st = "polling" /\ l.since = 0]_vars

\* ---- public calls made while another is suspended ----
MaxOverlap == 1      \* calls started beyond MaxTasks while others are suspended

\* publish, startMedia, joinRoom and leaveRoom called while an earlier call
\* waits for its answer.
NextOverlap ==
    \/ JoinRoomCallUpTo(FewJoinArgs, MaxLoops, MaxTasks + MaxOverlap)
    \/ JoinRoomStep(Short(FewRosters), {})
    \/ LeaveRoomCallUpTo(MaxTasks + MaxOverlap)
    \/ LeaveRoomStep
    \/ PublishCallUpTo(MaxTasks + MaxOverlap)
    \/ PublishStep(Short(PairParticipants), {})
    \/ StartMediaCallUpTo(MaxTasks + MaxOverlap)
    \/ StartMediaStep
    \/ PollResponseIn({0})
    \/ SignalIn(PairOffers)
    \/ SignalStep({})
    \/ Return

SpecOverlap == Init /\ [][NextOverlap]_vars

\* C40: whenever the session is publishing and holds a local stream, the
\* tracks of the stream are enabled.
C40_PublishingStreamEnabled ==
    (isPublisher /\ localStream # Null) => localStream = "live"

====
